---- MODULE Spec2Model ----
(***************************************************************************)
(* The Identity contract of dotflow-ink (contracts/identity/lib.rs) and the *)
(* AddressBook contract that calls it (contracts/address-book/lib.rs) as a *)
(* state machine.  The variables are the fields of the ink! storage        *)
(* structs `Identity` and `AddressBook`; each message is one action that   *)
(* runs the whole handler atomically: ink! executes one message at a time, *)
(* and                                                                     *)
(* every handler here returns `Err` before its first write to storage (the *)
(* IdentityInfo methods work on a copy that is stored only on success).    *)
(*                                                                         *)
(* `last` records the most recent call: the message, the caller taken from *)
(* the environment, the arguments, the returned `Result` and the events    *)
(* the call emitted.                                                       *)
(***************************************************************************)
EXTENDS Integers, Sequences, FiniteSets, TLC

VARIABLES
    number_to_identity,   \* Mapping<IdentityNo, IdentityInfo>: the `addresses` vector
    owner_of,             \* Mapping<IdentityNo, AccountId>
    identity_of,          \* Mapping<AccountId, IdentityNo>
    recovery_account_of,  \* Mapping<IdentityNo, AccountId>
    identity_count,       \* u32
    network_name,         \* Mapping<NetworkId, String>
    network_id_counter,   \* NetworkId (u32)
    admin,                \* AccountId
    address_book_of,      \* AddressBook: Mapping<AccountId, AddressBookInfo>, the `identities` vector
    identity_contract,    \* AddressBook: AccountId of the Identity contract
    last                  \* the most recent call and what it returned

storage == <<number_to_identity, owner_of, identity_of, recovery_account_of,
             identity_count, network_name, network_id_counter, admin>>

\* The storage of the AddressBook contract.
book_storage == <<address_book_of, identity_contract>>

vars == <<number_to_identity, owner_of, identity_of, recovery_account_of,
          identity_count, network_name, network_id_counter, admin,
          address_book_of, identity_contract, last>>

----------------------------------------------------------------------------
(* Program constants *)

ADDRESS_SIZE_LIMIT == 128

NETWORK_NAME_LIMIT == 128

----------------------------------------------------------------------------
(* Bounds of the model *)

\* create_identity is explored while identity_count is below this bound.
MaxIdentityCount == 2

\* add_network is explored while network_id_counter is below this bound.
MaxNetworkCount == 3

----------------------------------------------------------------------------
(* Inputs *)

\* ink! default accounts; alice is the default caller and hence the deployer.
Accounts == {"alice", "bob", "charlie"}

Deployer == "alice"

\* The account the Identity contract is instantiated at.
IdentityContract == "identity"

\* A byte vector (or string) of n copies of b.
Bytes(n, b) == [i \in 1..n |-> b]

\* The account passed to set_recovery_account.  recovery_account_of is read
\* by no message, so which account is stored changes no other behaviour.
RecoveryArgs == {"charlie"}

\* Network ids passed to add_address, update_address and remove_address.
AddressNetworkArgs == {0}

\* Network ids passed to update_network and remove_network: every id that
\* add_network can have assigned, and one that it cannot.
NetworkArgs == 0..MaxNetworkCount

\* Addresses passed in: a short one, and one byte over the limit.
AddressArgs == {<<1>>, Bytes(ADDRESS_SIZE_LIMIT + 1, 3)}

\* Network names passed in: "P", "K", and one byte over the limit.
NameArgs == {<<80>>, <<75>>, Bytes(NETWORK_NAME_LIMIT + 1, 97)}

----------------------------------------------------------------------------
(* ink::storage::Mapping as a partial function *)

EmptyMapping == [k \in {} |-> 0]

contains(m, k) == k \in DOMAIN m

insert(m, k, v) == [x \in DOMAIN m \cup {k} |-> IF x = k THEN v ELSE m[x]]

remove(m, k) == [x \in DOMAIN m \ {k} |-> m[x]]

\* A u32 is held as its 32 bits read as a signed integer, the only integers
\* TLC has: a value v above 2^31 - 1 is held as v - 2^32.  The values up to
\* 2^31 - 1 are held as themselves, and u32::MAX (2^32 - 1) is held as -1.
U32_MAX == -1

is_u32_max(n) == n = U32_MAX

\* u32::saturating_add(1).  No counter of the model passes 2^31 - 1, where
\* the next value is held as -2^31.
saturating_add_1(n) == IF is_u32_max(n) THEN n ELSE n + 1

----------------------------------------------------------------------------
(* Result values and the call record *)

Ok(v) == [ok |-> TRUE, val |-> v, err |-> "none"]

Err(e) == [ok |-> FALSE, val |-> <<>>, err |-> e]

Unit == <<>>

Call(op, caller, args, result, events) ==
    [op |-> op, caller |-> caller, args |-> args, result |-> result, events |-> events]

----------------------------------------------------------------------------
(* Initial state: Identity::new() and AddressBook::new(identity_contract)  *)
(* called by the deployer                                                 *)

Init ==
    /\ number_to_identity = EmptyMapping
    /\ owner_of = EmptyMapping
    /\ identity_of = EmptyMapping
    /\ identity_count = 0
    /\ network_name = EmptyMapping
    /\ network_id_counter = 0
    /\ recovery_account_of = EmptyMapping
    /\ admin = Deployer
    /\ address_book_of = EmptyMapping
    /\ identity_contract = IdentityContract
    /\ last = Call("new", Deployer, <<>>, Ok(Unit), <<>>)

----------------------------------------------------------------------------
(* IdentityInfo: the methods on the `addresses` vector of (network, address) *)

has_network(addresses, network) ==
    \E i \in 1..Len(addresses) : addresses[i][1] = network

\* Iterator::position: the first index whose network id matches.
position(addresses, network) ==
    CHOOSE i \in 1..Len(addresses) :
        /\ addresses[i][1] = network
        /\ \A j \in 1..(i - 1) : addresses[j][1] # network

\* Vec::retain(|(net, _)| *net != network)
retain_other(addresses, network) ==
    LET keep(entry) == entry[1] # network IN SelectSeq(addresses, keep)

\* add_address without the duplicate check: the entry is always pushed.
IdentityInfo_add_address_pushes(addresses, network, address) ==
    IF ~(Len(address) <= ADDRESS_SIZE_LIMIT) THEN Err("AddressSizeExceeded")
    ELSE Ok(Append(addresses, <<network, address>>))

\* add_address with the size compared by < : ADDRESS_SIZE_LIMIT bytes are refused.
IdentityInfo_add_address_below_limit(addresses, network, address) ==
    IF ~(Len(address) < ADDRESS_SIZE_LIMIT) THEN Err("AddressSizeExceeded")
    ELSE IF has_network(addresses, network) THEN Err("AddressAlreadyAdded")
    ELSE Ok(Append(addresses, <<network, address>>))

\* add_address as an upsert: an existing entry for the network is replaced.
IdentityInfo_add_address_upserts(addresses, network, address) ==
    IF ~(Len(address) <= ADDRESS_SIZE_LIMIT) THEN Err("AddressSizeExceeded")
    ELSE IF has_network(addresses, network)
    THEN Ok([addresses EXCEPT ![position(addresses, network)] = <<network, address>>])
    ELSE Ok(Append(addresses, <<network, address>>))

IdentityInfo_add_address(addresses, network, address) ==
    IF ~(Len(address) <= ADDRESS_SIZE_LIMIT) THEN Err("AddressSizeExceeded")
    ELSE IF has_network(addresses, network) THEN Err("AddressAlreadyAdded")
    ELSE Ok(Append(addresses, <<network, address>>))

\* update_address that drops the entry and appends the new one at the end.
IdentityInfo_update_address_reorders(addresses, network, new_address) ==
    IF ~(Len(new_address) <= ADDRESS_SIZE_LIMIT) THEN Err("AddressSizeExceeded")
    ELSE IF has_network(addresses, network)
    THEN Ok(Append(retain_other(addresses, network), <<network, new_address>>))
    ELSE Err("InvalidNetwork")

\* update_address that appends the new entry and leaves the old one in place.
IdentityInfo_update_address_appends(addresses, network, new_address) ==
    IF ~(Len(new_address) <= ADDRESS_SIZE_LIMIT) THEN Err("AddressSizeExceeded")
    ELSE IF has_network(addresses, network)
    THEN Ok(Append(addresses, <<network, new_address>>))
    ELSE Err("InvalidNetwork")

\* update_address as an upsert: a missing entry is appended.
IdentityInfo_update_address_upserts(addresses, network, new_address) ==
    IF ~(Len(new_address) <= ADDRESS_SIZE_LIMIT) THEN Err("AddressSizeExceeded")
    ELSE IF has_network(addresses, network)
    THEN Ok([addresses EXCEPT ![position(addresses, network)] = <<network, new_address>>])
    ELSE Ok(Append(addresses, <<network, new_address>>))

\* update_address without the size check.
IdentityInfo_update_address_any_size(addresses, network, new_address) ==
    IF has_network(addresses, network)
    THEN Ok([addresses EXCEPT ![position(addresses, network)] = <<network, new_address>>])
    ELSE Err("InvalidNetwork")

IdentityInfo_update_address(addresses, network, new_address) ==
    IF ~(Len(new_address) <= ADDRESS_SIZE_LIMIT) THEN Err("AddressSizeExceeded")
    ELSE IF has_network(addresses, network)
    THEN Ok([addresses EXCEPT ![position(addresses, network)] = <<network, new_address>>])
    ELSE Err("InvalidNetwork")

IdentityInfo_remove_address(addresses, network) ==
    LET old_count == Len(addresses)
        retained == retain_other(addresses, network)
        new_count == Len(retained)
    IN IF old_count = new_count THEN Err("InvalidNetwork") ELSE Ok(retained)

----------------------------------------------------------------------------
(* Messages *)

\* A call that returns Err before any write.
fails(op, caller, args, error) ==
    /\ last' = Call(op, caller, args, Err(error), <<>>)
    /\ UNCHANGED storage

get_identity_info_of_caller(caller) ==
    LET identity_no == identity_of[caller] IN
    IF ~contains(number_to_identity, identity_no) THEN Err("IdentityDoesntExist")
    ELSE Ok(number_to_identity[identity_no])

\* identity(identity_no): Some(info) exactly when the number is stored.
identity(identity_no) == contains(number_to_identity, identity_no)

\* create_identity numbering from 1: the counter is advanced before it is read.
create_identity_counts_first(caller) ==
    IF contains(identity_of, caller)
    THEN fails("create_identity", caller, <<>>, "NotAllowed")
    ELSE LET identity_no == saturating_add_1(identity_count) IN
         /\ number_to_identity' = insert(number_to_identity, identity_no, <<>>)
         /\ identity_of' = insert(identity_of, caller, identity_no)
         /\ owner_of' = insert(owner_of, identity_no, caller)
         /\ identity_count' = identity_no
         /\ last' = Call("create_identity", caller, <<>>, Ok(identity_no),
                         <<[event |-> "IdentityCreated", owner |-> caller,
                            identity_no |-> identity_no]>>)
         /\ UNCHANGED <<recovery_account_of, network_name, network_id_counter, admin>>

create_identity(caller) ==
    IF contains(identity_of, caller)
    THEN fails("create_identity", caller, <<>>, "NotAllowed")
    ELSE LET identity_no == identity_count IN
         /\ number_to_identity' = insert(number_to_identity, identity_no, <<>>)
         /\ identity_of' = insert(identity_of, caller, identity_no)
         /\ owner_of' = insert(owner_of, identity_no, caller)
         /\ identity_count' = saturating_add_1(identity_count)
         /\ last' = Call("create_identity", caller, <<>>, Ok(identity_no),
                         <<[event |-> "IdentityCreated", owner |-> caller,
                            identity_no |-> identity_no]>>)
         /\ UNCHANGED <<recovery_account_of, network_name, network_id_counter, admin>>

add_address(caller, network, address) ==
    IF ~contains(identity_of, caller)
    THEN fails("add_address", caller, <<network, address>>, "NotAllowed")
    ELSE LET identity_no == identity_of[caller]
             identity_info == get_identity_info_of_caller(caller)
             added == IdentityInfo_add_address(identity_info.val, network, address)
         IN IF ~identity_info.ok
            THEN fails("add_address", caller, <<network, address>>, identity_info.err)
            ELSE IF ~added.ok
            THEN fails("add_address", caller, <<network, address>>, added.err)
            ELSE /\ number_to_identity' =
                        insert(number_to_identity, identity_no, added.val)
                 /\ last' = Call("add_address", caller, <<network, address>>, Ok(Unit),
                                 <<[event |-> "AddressAdded", identity_no |-> identity_no,
                                    network |-> network, address |-> address]>>)
                 /\ UNCHANGED <<owner_of, identity_of, recovery_account_of,
                                identity_count, network_name, network_id_counter, admin>>

update_address(caller, network, address) ==
    IF ~contains(identity_of, caller)
    THEN fails("update_address", caller, <<network, address>>, "NotAllowed")
    ELSE LET identity_no == identity_of[caller]
             identity_info == get_identity_info_of_caller(caller)
             updated == IdentityInfo_update_address(identity_info.val, network, address)
         IN IF ~identity_info.ok
            THEN fails("update_address", caller, <<network, address>>, identity_info.err)
            ELSE IF ~updated.ok
            THEN fails("update_address", caller, <<network, address>>, updated.err)
            ELSE /\ number_to_identity' =
                        insert(number_to_identity, identity_no, updated.val)
                 /\ last' = Call("update_address", caller, <<network, address>>, Ok(Unit),
                                 <<[event |-> "AddressUpdated", identity_no |-> identity_no,
                                    network |-> network, updated_address |-> address]>>)
                 /\ UNCHANGED <<owner_of, identity_of, recovery_account_of,
                                identity_count, network_name, network_id_counter, admin>>

remove_address(caller, network) ==
    IF ~contains(identity_of, caller)
    THEN fails("remove_address", caller, <<network>>, "NotAllowed")
    ELSE LET identity_no == identity_of[caller]
             identity_info == get_identity_info_of_caller(caller)
             removed == IdentityInfo_remove_address(identity_info.val, network)
         IN IF ~identity_info.ok
            THEN fails("remove_address", caller, <<network>>, identity_info.err)
            ELSE IF ~removed.ok
            THEN fails("remove_address", caller, <<network>>, removed.err)
            ELSE /\ number_to_identity' =
                        insert(number_to_identity, identity_no, removed.val)
                 /\ last' = Call("remove_address", caller, <<network>>, Ok(Unit),
                                 <<[event |-> "AddressRemoved", identity_no |-> identity_no,
                                    network |-> network]>>)
                 /\ UNCHANGED <<owner_of, identity_of, recovery_account_of,
                                identity_count, network_name, network_id_counter, admin>>

\* remove_identity that treats identity_count as the number of live
\* identities and decrements it.
remove_identity_decrements(caller) ==
    IF ~contains(identity_of, caller)
    THEN fails("remove_identity", caller, <<>>, "NotAllowed")
    ELSE LET identity_no == identity_of[caller] IN
         /\ identity_of' = remove(identity_of, caller)
         /\ owner_of' = remove(owner_of, identity_no)
         /\ number_to_identity' = remove(number_to_identity, identity_no)
         /\ identity_count' = identity_count - 1
         /\ last' = Call("remove_identity", caller, <<>>, Ok(Unit),
                         <<[event |-> "IdentityRemoved", identity_no |-> identity_no]>>)
         /\ UNCHANGED <<recovery_account_of, network_name, network_id_counter, admin>>

\* remove_identity that forgets the address list: number_to_identity keeps it.
remove_identity_keeps_addresses(caller) ==
    IF ~contains(identity_of, caller)
    THEN fails("remove_identity", caller, <<>>, "NotAllowed")
    ELSE LET identity_no == identity_of[caller] IN
         /\ identity_of' = remove(identity_of, caller)
         /\ owner_of' = remove(owner_of, identity_no)
         /\ last' = Call("remove_identity", caller, <<>>, Ok(Unit),
                         <<[event |-> "IdentityRemoved", identity_no |-> identity_no]>>)
         /\ UNCHANGED <<number_to_identity, recovery_account_of, identity_count,
                        network_name, network_id_counter, admin>>

remove_identity(caller) ==
    IF ~contains(identity_of, caller)
    THEN fails("remove_identity", caller, <<>>, "NotAllowed")
    ELSE LET identity_no == identity_of[caller] IN
         /\ identity_of' = remove(identity_of, caller)
         /\ owner_of' = remove(owner_of, identity_no)
         /\ number_to_identity' = remove(number_to_identity, identity_no)
         /\ last' = Call("remove_identity", caller, <<>>, Ok(Unit),
                         <<[event |-> "IdentityRemoved", identity_no |-> identity_no]>>)
         /\ UNCHANGED <<recovery_account_of, identity_count, network_name,
                        network_id_counter, admin>>

\* add_network that hands out the lowest id not in the directory.
add_network_reuses_ids(caller, name) ==
    IF ~(caller = admin)
    THEN fails("add_network", caller, <<name>>, "NotAllowed")
    ELSE IF ~(Len(name) <= NETWORK_NAME_LIMIT)
    THEN fails("add_network", caller, <<name>>, "NetworkNameTooLong")
    ELSE LET network_id == CHOOSE id \in 0..network_id_counter :
                               /\ ~contains(network_name, id)
                               /\ \A j \in 0..(id - 1) : contains(network_name, j)
         IN
         /\ network_name' = insert(network_name, network_id, name)
         /\ network_id_counter' = saturating_add_1(network_id_counter)
         /\ last' = Call("add_network", caller, <<name>>, Ok(network_id),
                         <<[event |-> "NetworkAdded", network_id |-> network_id,
                            name |-> name]>>)
         /\ UNCHANGED <<number_to_identity, owner_of, identity_of,
                        recovery_account_of, identity_count, admin>>

\* add_network that takes the next id before its checks: a refused call has
\* advanced the counter.
add_network_counts_refusals(caller, name) ==
    IF ~(caller = admin) \/ ~(Len(name) <= NETWORK_NAME_LIMIT)
    THEN /\ network_id_counter' = saturating_add_1(network_id_counter)
         /\ last' = Call("add_network", caller, <<name>>,
                         Err(IF ~(caller = admin) THEN "NotAllowed"
                             ELSE "NetworkNameTooLong"), <<>>)
         /\ UNCHANGED <<number_to_identity, owner_of, identity_of,
                        recovery_account_of, identity_count, admin, network_name>>
    ELSE LET network_id == network_id_counter IN
         /\ network_name' = insert(network_name, network_id, name)
         /\ network_id_counter' = saturating_add_1(network_id_counter)
         /\ last' = Call("add_network", caller, <<name>>, Ok(network_id),
                         <<[event |-> "NetworkAdded", network_id |-> network_id,
                            name |-> name]>>)
         /\ UNCHANGED <<number_to_identity, owner_of, identity_of,
                        recovery_account_of, identity_count, admin>>

add_network(caller, name) ==
    IF ~(caller = admin)
    THEN fails("add_network", caller, <<name>>, "NotAllowed")
    ELSE IF ~(Len(name) <= NETWORK_NAME_LIMIT)
    THEN fails("add_network", caller, <<name>>, "NetworkNameTooLong")
    ELSE LET network_id == network_id_counter IN
         /\ network_name' = insert(network_name, network_id, name)
         /\ network_id_counter' = saturating_add_1(network_id_counter)
         /\ last' = Call("add_network", caller, <<name>>, Ok(network_id),
                         <<[event |-> "NetworkAdded", network_id |-> network_id,
                            name |-> name]>>)
         /\ UNCHANGED <<number_to_identity, owner_of, identity_of,
                        recovery_account_of, identity_count, admin>>

\* update_network as an upsert: a missing id gets the name.
update_network_upserts(caller, network_id, new_name) ==
    IF ~(caller = admin)
    THEN fails("update_network", caller, <<network_id, new_name>>, "NotAllowed")
    ELSE IF ~(Len(new_name) <= NETWORK_NAME_LIMIT)
    THEN fails("update_network", caller, <<network_id, new_name>>, "NetworkNameTooLong")
    ELSE /\ network_name' = insert(network_name, network_id, new_name)
         /\ last' = Call("update_network", caller, <<network_id, new_name>>, Ok(Unit),
                         <<[event |-> "NetworkUpdated", network_id |-> network_id,
                            name |-> new_name]>>)
         /\ UNCHANGED <<number_to_identity, owner_of, identity_of, recovery_account_of,
                        identity_count, network_id_counter, admin>>

\* update_network without the length check.
update_network_any_length(caller, network_id, new_name) ==
    IF ~(caller = admin)
    THEN fails("update_network", caller, <<network_id, new_name>>, "NotAllowed")
    ELSE IF ~contains(network_name, network_id)
    THEN fails("update_network", caller, <<network_id, new_name>>, "InvalidNetwork")
    ELSE /\ network_name' = insert(network_name, network_id, new_name)
         /\ last' = Call("update_network", caller, <<network_id, new_name>>, Ok(Unit),
                         <<[event |-> "NetworkUpdated", network_id |-> network_id,
                            name |-> new_name]>>)
         /\ UNCHANGED <<number_to_identity, owner_of, identity_of, recovery_account_of,
                        identity_count, network_id_counter, admin>>

update_network(caller, network_id, new_name) ==
    IF ~(caller = admin)
    THEN fails("update_network", caller, <<network_id, new_name>>, "NotAllowed")
    ELSE IF ~(Len(new_name) <= NETWORK_NAME_LIMIT)
    THEN fails("update_network", caller, <<network_id, new_name>>, "NetworkNameTooLong")
    ELSE IF ~contains(network_name, network_id)
    THEN fails("update_network", caller, <<network_id, new_name>>, "InvalidNetwork")
    ELSE /\ network_name' = insert(network_name, network_id, new_name)
         /\ last' = Call("update_network", caller, <<network_id, new_name>>, Ok(Unit),
                         <<[event |-> "NetworkUpdated", network_id |-> network_id,
                            name |-> new_name]>>)
         /\ UNCHANGED <<number_to_identity, owner_of, identity_of, recovery_account_of,
                        identity_count, network_id_counter, admin>>

\* remove_network open to every caller.
remove_network_by_anyone(caller, network_id) ==
    IF ~contains(network_name, network_id)
    THEN fails("remove_network", caller, <<network_id>>, "InvalidNetwork")
    ELSE /\ network_name' = remove(network_name, network_id)
         /\ last' = Call("remove_network", caller, <<network_id>>, Ok(Unit),
                         <<[event |-> "NetworkRemoved", network_id |-> network_id]>>)
         /\ UNCHANGED <<number_to_identity, owner_of, identity_of, recovery_account_of,
                        identity_count, network_id_counter, admin>>

remove_network(caller, network_id) ==
    IF ~(caller = admin)
    THEN fails("remove_network", caller, <<network_id>>, "NotAllowed")
    ELSE IF ~contains(network_name, network_id)
    THEN fails("remove_network", caller, <<network_id>>, "InvalidNetwork")
    ELSE /\ network_name' = remove(network_name, network_id)
         /\ last' = Call("remove_network", caller, <<network_id>>, Ok(Unit),
                         <<[event |-> "NetworkRemoved", network_id |-> network_id]>>)
         /\ UNCHANGED <<number_to_identity, owner_of, identity_of, recovery_account_of,
                        identity_count, network_id_counter, admin>>

\* set_recovery_account without the ownership check: unwrap_or_default on
\* the caller's identity number.
set_recovery_account_unchecked(caller, recovery_account) ==
    LET identity_no == IF contains(identity_of, caller) THEN identity_of[caller] ELSE 0 IN
    /\ recovery_account_of' =
           insert(recovery_account_of, identity_no, recovery_account)
    /\ last' = Call("set_recovery_account", caller, <<recovery_account>>, Ok(Unit),
                    <<[event |-> "RecoveryAccountSet", identity_no |-> identity_no,
                       recovery_account |-> recovery_account]>>)
    /\ UNCHANGED <<number_to_identity, owner_of, identity_of, identity_count,
                   network_name, network_id_counter, admin>>

\* set_recovery_account that keeps a recovery account that is already set.
set_recovery_account_keeps_first(caller, recovery_account) ==
    IF ~contains(identity_of, caller)
    THEN fails("set_recovery_account", caller, <<recovery_account>>, "NotAllowed")
    ELSE LET identity_no == identity_of[caller] IN
         /\ recovery_account_of' =
                IF contains(recovery_account_of, identity_no)
                THEN recovery_account_of
                ELSE insert(recovery_account_of, identity_no, recovery_account)
         /\ last' = Call("set_recovery_account", caller, <<recovery_account>>, Ok(Unit),
                         <<[event |-> "RecoveryAccountSet", identity_no |-> identity_no,
                            recovery_account |-> recovery_account]>>)
         /\ UNCHANGED <<number_to_identity, owner_of, identity_of, identity_count,
                        network_name, network_id_counter, admin>>

set_recovery_account(caller, recovery_account) ==
    IF ~contains(identity_of, caller)
    THEN fails("set_recovery_account", caller, <<recovery_account>>, "NotAllowed")
    ELSE LET identity_no == identity_of[caller] IN
         /\ recovery_account_of' =
                insert(recovery_account_of, identity_no, recovery_account)
         /\ last' = Call("set_recovery_account", caller, <<recovery_account>>, Ok(Unit),
                         <<[event |-> "RecoveryAccountSet", identity_no |-> identity_no,
                            recovery_account |-> recovery_account]>>)
         /\ UNCHANGED <<number_to_identity, owner_of, identity_of, identity_count,
                        network_name, network_id_counter, admin>>

\* transfer_ownership authorised by the new owner's account instead of the
\* caller's: a caller without an identity moves the identity of new_owner.
transfer_ownership_checks_new_owner(caller, new_owner) ==
    IF ~contains(identity_of, new_owner)
    THEN fails("transfer_ownership", caller, <<new_owner>>, "NotAllowed")
    ELSE LET identity_no == identity_of[new_owner] IN
         /\ identity_of' = insert(remove(identity_of, new_owner), caller, identity_no)
         /\ owner_of' = insert(owner_of, identity_no, caller)
         /\ last' = Call("transfer_ownership", caller, <<new_owner>>, Ok(Unit), <<>>)
         /\ UNCHANGED <<number_to_identity, recovery_account_of, identity_count,
                        network_name, network_id_counter, admin>>

\* transfer_ownership that resets the recovery account of the moved identity.
transfer_ownership_clears_recovery(caller, new_owner) ==
    IF ~contains(identity_of, caller)
    THEN fails("transfer_ownership", caller, <<new_owner>>, "NotAllowed")
    ELSE LET identity_no == identity_of[caller] IN
         /\ identity_of' = insert(remove(identity_of, caller), new_owner, identity_no)
         /\ owner_of' = insert(owner_of, identity_no, new_owner)
         /\ recovery_account_of' = remove(recovery_account_of, identity_no)
         /\ last' = Call("transfer_ownership", caller, <<new_owner>>, Ok(Unit), <<>>)
         /\ UNCHANGED <<number_to_identity, identity_count,
                        network_name, network_id_counter, admin>>

\* transfer_ownership takes only the new owner: the identity moved is the
\* caller's own, and no event is emitted.
transfer_ownership(caller, new_owner) ==
    IF ~contains(identity_of, caller)
    THEN fails("transfer_ownership", caller, <<new_owner>>, "NotAllowed")
    ELSE LET identity_no == identity_of[caller] IN
         /\ identity_of' = insert(remove(identity_of, caller), new_owner, identity_no)
         /\ owner_of' = insert(owner_of, identity_no, new_owner)
         /\ last' = Call("transfer_ownership", caller, <<new_owner>>, Ok(Unit), <<>>)
         /\ UNCHANGED <<number_to_identity, recovery_account_of, identity_count,
                        network_name, network_id_counter, admin>>

----------------------------------------------------------------------------
(* Next-state relations.                                                   *)
(*                                                                         *)
(* The identity messages read and write number_to_identity, owner_of,      *)
(* identity_of, recovery_account_of and identity_count only; the network   *)
(* messages read admin and read and write network_name and                 *)
(* network_id_counter only.  The two groups share no storage, so each is   *)
(* explored in its own specification: Spec runs the identity messages by   *)
(* any caller, SpecNetwork the network messages by any caller.  The        *)
(* address book messages read and write address_book_of only and read      *)
(* number_to_identity through the call of `identity`; SpecBook and the     *)
(* specifications after it run them with the identity messages.            *)

\* create_identity is explored while the counter is below MaxIdentityCount;
\* a call that fails does not advance the counter and is always explored.
Next ==
    \/ \E caller \in Accounts :
          /\ contains(identity_of, caller) \/ identity_count < MaxIdentityCount
          /\ create_identity(caller)
          /\ UNCHANGED book_storage
    \/ \E caller \in Accounts, network \in AddressNetworkArgs, address \in AddressArgs :
          /\ add_address(caller, network, address)
          /\ UNCHANGED book_storage
    \/ \E caller \in Accounts, network \in AddressNetworkArgs, address \in AddressArgs :
          /\ update_address(caller, network, address)
          /\ UNCHANGED book_storage
    \/ \E caller \in Accounts, network \in AddressNetworkArgs :
          /\ remove_address(caller, network)
          /\ UNCHANGED book_storage
    \/ \E caller \in Accounts :
          /\ remove_identity(caller)
          /\ UNCHANGED book_storage
    \/ \E caller \in Accounts, recovery_account \in RecoveryArgs :
          /\ set_recovery_account(caller, recovery_account)
          /\ UNCHANGED book_storage
    \/ \E caller \in Accounts, new_owner \in Accounts :
          /\ transfer_ownership(caller, new_owner)
          /\ UNCHANGED book_storage

Spec == Init /\ [][Next]_vars

NextNetwork ==
    \/ \E caller \in Accounts, name \in NameArgs :
          /\ (caller = admin /\ Len(name) <= NETWORK_NAME_LIMIT)
                => network_id_counter < MaxNetworkCount
          /\ add_network(caller, name)
          /\ UNCHANGED book_storage
    \/ \E caller \in Accounts, network_id \in NetworkArgs, name \in NameArgs :
          /\ update_network(caller, network_id, name)
          /\ UNCHANGED book_storage
    \/ \E caller \in Accounts, network_id \in NetworkArgs :
          /\ remove_network(caller, network_id)
          /\ UNCHANGED book_storage

SpecNetwork == Init /\ [][NextNetwork]_vars

\* The address messages with two networks and three addresses: a short one,
\* one of exactly ADDRESS_SIZE_LIMIT bytes and one a byte longer.  One caller
\* owns an identity, the others call without one.
MaxAddressIdentityCount == 1

NetworkIds == {0, 1}

AddressBytes == {<<1>>, Bytes(ADDRESS_SIZE_LIMIT, 2), Bytes(ADDRESS_SIZE_LIMIT + 1, 3)}

NextAddress ==
    \/ \E caller \in Accounts :
          /\ contains(identity_of, caller) \/ identity_count < MaxAddressIdentityCount
          /\ create_identity(caller)
          /\ UNCHANGED book_storage
    \/ \E caller \in Accounts, network \in NetworkIds, address \in AddressBytes :
          /\ add_address(caller, network, address)
          /\ UNCHANGED book_storage
    \/ \E caller \in Accounts, network \in NetworkIds, address \in AddressBytes :
          /\ update_address(caller, network, address)
          /\ UNCHANGED book_storage
    \/ \E caller \in Accounts, network \in NetworkIds :
          /\ remove_address(caller, network)
          /\ UNCHANGED book_storage
    \/ \E caller \in Accounts :
          /\ remove_identity(caller)
          /\ UNCHANGED book_storage

SpecAddress == Init /\ [][NextAddress]_vars

\* transaction_destination(identity_no, network): the address an identity has
\* for a network.  Reads the storage only.
transaction_destination(caller, identity_no, network) ==
    LET result ==
            IF ~identity(identity_no) THEN Err("IdentityDoesntExist")
            ELSE LET addresses == number_to_identity[identity_no] IN
                 IF ~has_network(addresses, network) THEN Err("InvalidNetwork")
                 ELSE Ok(addresses[position(addresses, network)][2])
    IN /\ last' = Call("transaction_destination", caller, <<identity_no, network>>,
                       result, <<>>)
       /\ UNCHANGED storage

\* Identity numbers passed to transaction_destination: every number that
\* create_identity can have assigned, and one that it cannot.
IdentityNoArgs == 0..MaxAddressIdentityCount

\* The address messages together with the lookups of their results.
NextDestination ==
    \/ NextAddress
    \/ \E caller \in Accounts, identity_no \in IdentityNoArgs, network \in NetworkIds :
          /\ transaction_destination(caller, identity_no, network)
          /\ UNCHANGED book_storage

SpecDestination == Init /\ [][NextDestination]_vars

\* The ownership messages with every account as a possible recovery account.
NextRecovery ==
    \/ \E caller \in Accounts :
          /\ contains(identity_of, caller) \/ identity_count < MaxIdentityCount
          /\ create_identity(caller)
          /\ UNCHANGED book_storage
    \/ \E caller \in Accounts :
          /\ remove_identity(caller)
          /\ UNCHANGED book_storage
    \/ \E caller \in Accounts, recovery_account \in Accounts :
          /\ set_recovery_account(caller, recovery_account)
          /\ UNCHANGED book_storage
    \/ \E caller \in Accounts, new_owner \in Accounts :
          /\ transfer_ownership(caller, new_owner)
          /\ UNCHANGED book_storage

SpecRecovery == Init /\ [][NextRecovery]_vars

----------------------------------------------------------------------------
(* The AddressBook contract (contracts/address-book/lib.rs) with the        *)
(* AddressBookInfo methods of contracts/address_book/types.rs, the version  *)
(* whose remove_identity has the signature lib.rs calls.  An IdentityRecord *)
(* is the pair (identity_no, nickname).                                     *)

NICKNAME_LENGTH_LIMIT == 16

\* Option<T>: None, or Some(v).
None == <<>>

Some(v) == <<v>>

\* A call of the AddressBook that returns Err before any write.
book_fails(op, caller, args, error) ==
    /\ last' = Call(op, caller, args, Err(error), <<>>)
    /\ UNCHANGED <<storage, book_storage>>

has_identity(identities, identity_no) ==
    \E i \in 1..Len(identities) : identities[i][1] = identity_no

\* Iterator::position: the first index whose identity number matches.
identity_position(identities, identity_no) ==
    CHOOSE i \in 1..Len(identities) :
        /\ identities[i][1] = identity_no
        /\ \A j \in 1..(i - 1) : identities[j][1] # identity_no

\* if let Some(name) = nickname { ensure!(name.len() <= NICKNAME_LENGTH_LIMIT) }
nickname_within_limit(nickname) ==
    nickname = None \/ Len(nickname[1]) <= NICKNAME_LENGTH_LIMIT

\* Vec::remove(index)
vec_remove(v, index) == SubSeq(v, 1, index - 1) \o SubSeq(v, index + 1, Len(v))

\* add_identity without the duplicate check.
AddressBookInfo_add_identity_pushes(identities, identity_no, nickname) ==
    IF ~nickname_within_limit(nickname) THEN Err("NickNameTooLong")
    ELSE Ok(Append(identities, <<identity_no, nickname>>))

\* add_identity with the length check ahead of the duplicate check.
AddressBookInfo_add_identity_length_first(identities, identity_no, nickname) ==
    IF ~nickname_within_limit(nickname) THEN Err("NickNameTooLong")
    ELSE IF has_identity(identities, identity_no) THEN Err("IdentityAlreadyAdded")
    ELSE Ok(Append(identities, <<identity_no, nickname>>))

AddressBookInfo_add_identity(identities, identity_no, nickname) ==
    IF has_identity(identities, identity_no) THEN Err("IdentityAlreadyAdded")
    ELSE IF ~nickname_within_limit(nickname) THEN Err("NickNameTooLong")
    ELSE Ok(Append(identities, <<identity_no, nickname>>))

\* remove_identity that drops the last record instead of the one found.
AddressBookInfo_remove_identity_pops(identities, identity_no) ==
    IF ~has_identity(identities, identity_no) THEN Err("IdentityNotAdded")
    ELSE Ok(vec_remove(identities, Len(identities)))

AddressBookInfo_remove_identity(identities, identity_no) ==
    IF ~has_identity(identities, identity_no) THEN Err("IdentityNotAdded")
    ELSE Ok(vec_remove(identities, identity_position(identities, identity_no)))

\* update_nickname that removes the record and appends the new one.
AddressBookInfo_update_nickname_reorders(identities, identity_no, new_nickname) ==
    IF ~nickname_within_limit(new_nickname) THEN Err("NickNameTooLong")
    ELSE IF ~has_identity(identities, identity_no) THEN Err("IdentityNotAdded")
    ELSE Ok(Append(vec_remove(identities, identity_position(identities, identity_no)),
                   <<identity_no, new_nickname>>))

\* update_nickname without the length check.
AddressBookInfo_update_nickname_any_length(identities, identity_no, new_nickname) ==
    IF ~has_identity(identities, identity_no) THEN Err("IdentityNotAdded")
    ELSE Ok([identities EXCEPT ![identity_position(identities, identity_no)] =
                                   <<identity_no, new_nickname>>])

AddressBookInfo_update_nickname(identities, identity_no, new_nickname) ==
    IF ~nickname_within_limit(new_nickname) THEN Err("NickNameTooLong")
    ELSE IF ~has_identity(identities, identity_no) THEN Err("IdentityNotAdded")
    ELSE Ok([identities EXCEPT ![identity_position(identities, identity_no)] =
                                   <<identity_no, new_nickname>>])

\* create_address_book without the check: an existing book is replaced by an
\* empty one.
create_address_book_resets(caller) ==
    /\ address_book_of' = insert(address_book_of, caller, <<>>)
    /\ last' = Call("create_address_book", caller, <<>>, Ok(Unit),
                    <<[event |-> "AddressBookCreated", owner |-> caller]>>)
    /\ UNCHANGED <<storage, identity_contract>>

create_address_book(caller) ==
    IF contains(address_book_of, caller)
    THEN book_fails("create_address_book", caller, <<>>, "AddressBookAlreadyCreated")
    ELSE /\ address_book_of' = insert(address_book_of, caller, <<>>)
         /\ last' = Call("create_address_book", caller, <<>>, Ok(Unit),
                         <<[event |-> "AddressBookCreated", owner |-> caller]>>)
         /\ UNCHANGED <<storage, identity_contract>>

\* remove_address_book that clears the whole mapping.
remove_address_book_of_everyone(caller) ==
    IF ~contains(address_book_of, caller)
    THEN book_fails("remove_address_book", caller, <<>>, "AddressBookDoesntExist")
    ELSE /\ address_book_of' = EmptyMapping
         /\ last' = Call("remove_address_book", caller, <<>>, Ok(Unit),
                         <<[event |-> "AddressBookRemoved", owner |-> caller]>>)
         /\ UNCHANGED <<storage, identity_contract>>

remove_address_book(caller) ==
    IF ~contains(address_book_of, caller)
    THEN book_fails("remove_address_book", caller, <<>>, "AddressBookDoesntExist")
    ELSE /\ address_book_of' = remove(address_book_of, caller)
         /\ last' = Call("remove_address_book", caller, <<>>, Ok(Unit),
                         <<[event |-> "AddressBookRemoved", owner |-> caller]>>)
         /\ UNCHANGED <<storage, identity_contract>>

\* The cross-contract call answered with Some for every identity number.
identity_is_some_always(identity_no) == TRUE

\* The cross-contract call answered with Some for every identity number
\* create_identity has handed out, removed or not.
identity_is_some_once_created(identity_no) == identity_no < identity_count

\* The call of the `identity` message of the contract at identity_contract,
\* decoded as Option<()>: is_some() exactly when the identity is stored.
identity_is_some(identity_no) == identity(identity_no)

\* AddressBook::add_identity.  Its call record is named after the contract,
\* since the Identity contract has a remove_identity message of its own.
AddressBook_add_identity(caller, identity_no, nickname) ==
    IF ~contains(address_book_of, caller)
    THEN book_fails("AddressBook::add_identity", caller, <<identity_no, nickname>>,
                    "AddressBookDoesntExist")
    ELSE LET address_book == address_book_of[caller]
             added == AddressBookInfo_add_identity(address_book, identity_no, nickname)
         IN IF ~identity_is_some(identity_no)
            THEN book_fails("AddressBook::add_identity", caller,
                            <<identity_no, nickname>>, "IdentityDoesntExist")
            ELSE IF ~added.ok
            THEN book_fails("AddressBook::add_identity", caller,
                            <<identity_no, nickname>>, added.err)
            ELSE /\ address_book_of' = insert(address_book_of, caller, added.val)
                 /\ last' = Call("AddressBook::add_identity", caller,
                                 <<identity_no, nickname>>, Ok(Unit),
                                 <<[event |-> "IdentityAdded", owner |-> caller,
                                    identity |-> identity_no]>>)
                 /\ UNCHANGED <<storage, identity_contract>>

\* AddressBook::remove_identity
AddressBook_remove_identity(caller, identity_no) ==
    IF ~contains(address_book_of, caller)
    THEN book_fails("AddressBook::remove_identity", caller, <<identity_no>>,
                    "AddressBookDoesntExist")
    ELSE LET address_book == address_book_of[caller]
             removed == AddressBookInfo_remove_identity(address_book, identity_no)
         IN IF ~removed.ok
            THEN book_fails("AddressBook::remove_identity", caller, <<identity_no>>,
                            removed.err)
            ELSE /\ address_book_of' = insert(address_book_of, caller, removed.val)
                 /\ last' = Call("AddressBook::remove_identity", caller,
                                 <<identity_no>>, Ok(Unit),
                                 <<[event |-> "IdentityRemoved", owner |-> caller,
                                    identity |-> identity_no]>>)
                 /\ UNCHANGED <<storage, identity_contract>>

update_nickname(caller, identity_no, new_nickname) ==
    IF ~contains(address_book_of, caller)
    THEN book_fails("update_nickname", caller, <<identity_no, new_nickname>>,
                    "AddressBookDoesntExist")
    ELSE LET address_book == address_book_of[caller]
             updated == AddressBookInfo_update_nickname(address_book, identity_no,
                                                        new_nickname)
         IN IF ~updated.ok
            THEN book_fails("update_nickname", caller, <<identity_no, new_nickname>>,
                            updated.err)
            ELSE /\ address_book_of' = insert(address_book_of, caller, updated.val)
                 /\ last' = Call("update_nickname", caller,
                                 <<identity_no, new_nickname>>, Ok(Unit),
                                 <<[event |-> "NickNameUpdated", owner |-> caller,
                                    identity_no |-> identity_no,
                                    new_nickname |-> new_nickname]>>)
                 /\ UNCHANGED <<storage, identity_contract>>

\* identities_of answering with the book of the caller, not of `account`.
identities_of_the_caller(caller, account) ==
    /\ last' = Call("identities_of", caller, <<account>>,
                    Ok(IF contains(address_book_of, caller)
                       THEN address_book_of[caller] ELSE <<>>), <<>>)
    /\ UNCHANGED <<storage, book_storage>>

\* identities_of(account): a read-only message; the value returned, the
\* records of the account's book or of a default (empty) book, is recorded
\* as Ok(value).
identities_of(caller, account) ==
    /\ last' = Call("identities_of", caller, <<account>>,
                    Ok(IF contains(address_book_of, account)
                       THEN address_book_of[account] ELSE <<>>), <<>>)
    /\ UNCHANGED <<storage, book_storage>>

\* has_address_book(): a read-only message; the boolean returned is recorded
\* as Ok(value).
has_address_book(caller) ==
    /\ last' = Call("has_address_book", caller, <<>>,
                    Ok(contains(address_book_of, caller)), <<>>)
    /\ UNCHANGED <<storage, book_storage>>

\* The address book messages by the accounts that keep a book, with the
\* identities they refer to created and removed in the Identity contract.
MaxBookIdentityCount == 2

\* Identity numbers passed to the address book: every number create_identity
\* can have assigned, and one that it cannot.
BookIdentityArgs == 0..MaxBookIdentityCount

\* Nicknames passed in: none, one of exactly NICKNAME_LENGTH_LIMIT chars and
\* one a char longer.
NicknameArgs == {None, Some(Bytes(NICKNAME_LENGTH_LIMIT, 98)),
                 Some(Bytes(NICKNAME_LENGTH_LIMIT + 1, 97))}

\* The accounts that create identities, the account that keeps an address
\* book, and the accounts that call the address book: its owner, and one
\* that never made a book.
IdentityOwners == {"bob", "charlie"}

BookOwners == {"alice"}

BookCallers == {"alice", "bob"}

NextBook ==
    \/ \E caller \in IdentityOwners :
          /\ contains(identity_of, caller) \/ identity_count < MaxBookIdentityCount
          /\ create_identity(caller)
          /\ UNCHANGED book_storage
    \/ \E caller \in IdentityOwners :
          /\ remove_identity(caller)
          /\ UNCHANGED book_storage
    \/ \E caller \in BookOwners :
          create_address_book(caller)
    \/ \E caller \in BookCallers :
          remove_address_book(caller)
    \/ \E caller \in BookCallers, identity_no \in BookIdentityArgs, nickname \in NicknameArgs :
          AddressBook_add_identity(caller, identity_no, nickname)
    \/ \E caller \in BookCallers, identity_no \in BookIdentityArgs :
          AddressBook_remove_identity(caller, identity_no)
    \/ \E caller \in BookCallers, identity_no \in BookIdentityArgs, nickname \in NicknameArgs :
          update_nickname(caller, identity_no, nickname)
    \/ \E caller \in BookOwners, account \in BookCallers :
          identities_of(caller, account)
    \/ \E caller \in BookCallers :
          has_address_book(caller)

SpecBook == Init /\ [][NextBook]_vars

\* Two accounts that each keep an address book, and a third that creates and
\* removes the identities the books refer to.
MaxSharedIdentityCount == 2

SharedIdentityArgs == 0..MaxSharedIdentityCount

SharedNicknameArgs == {None, Some(Bytes(3, 98))}

SharedIdentityOwners == {"charlie"}

SharedBookOwners == {"alice", "bob"}

NextBooks ==
    \/ \E caller \in SharedIdentityOwners :
          /\ contains(identity_of, caller) \/ identity_count < MaxSharedIdentityCount
          /\ create_identity(caller)
          /\ UNCHANGED book_storage
    \/ \E caller \in SharedIdentityOwners :
          /\ remove_identity(caller)
          /\ UNCHANGED book_storage
    \/ \E caller \in SharedBookOwners :
          create_address_book(caller)
    \/ \E caller \in SharedBookOwners :
          remove_address_book(caller)
    \/ \E caller \in SharedBookOwners, identity_no \in SharedIdentityArgs,
          nickname \in SharedNicknameArgs :
          AddressBook_add_identity(caller, identity_no, nickname)
    \/ \E caller \in SharedBookOwners, identity_no \in SharedIdentityArgs :
          AddressBook_remove_identity(caller, identity_no)
    \/ \E caller \in SharedBookOwners, identity_no \in SharedIdentityArgs,
          nickname \in SharedNicknameArgs :
          update_nickname(caller, identity_no, nickname)
    \/ \E caller \in SharedBookOwners, account \in SharedBookOwners :
          identities_of(caller, account)

SpecBooks == Init /\ [][NextBooks]_vars

\* Every writing message of both contracts: the identity messages by an
\* account that creates an identity, the network messages by the admin and by
\* another account, the address book messages by an account that creates a
\* book.  Each message is called with arguments it accepts and with
\* arguments it refuses.
MaxContractsCount == 1

ContractsIdentityCallers == {"bob"}

ContractsNetworkCallers == {Deployer, "bob"}

ContractsBookCallers == {"alice"}

ContractsNetworkArgs == 0..MaxContractsCount

ContractsNameArgs == {<<80>>, Bytes(NETWORK_NAME_LIMIT + 1, 97)}

ContractsIdentityArgs == 0..MaxContractsCount

ContractsNicknameArgs == {None, Some(Bytes(NICKNAME_LENGTH_LIMIT + 1, 97))}

NextContracts ==
    \/ \E caller \in ContractsIdentityCallers :
          /\ contains(identity_of, caller) \/ identity_count < MaxContractsCount
          /\ create_identity(caller)
          /\ UNCHANGED book_storage
    \/ \E caller \in ContractsIdentityCallers, network \in AddressNetworkArgs,
          address \in AddressArgs :
          /\ add_address(caller, network, address)
          /\ UNCHANGED book_storage
    \/ \E caller \in ContractsIdentityCallers, network \in AddressNetworkArgs,
          address \in AddressArgs :
          /\ update_address(caller, network, address)
          /\ UNCHANGED book_storage
    \/ \E caller \in ContractsIdentityCallers, network \in AddressNetworkArgs :
          /\ remove_address(caller, network)
          /\ UNCHANGED book_storage
    \/ \E caller \in ContractsIdentityCallers :
          /\ remove_identity(caller)
          /\ UNCHANGED book_storage
    \/ \E caller \in ContractsIdentityCallers, recovery_account \in RecoveryArgs :
          /\ set_recovery_account(caller, recovery_account)
          /\ UNCHANGED book_storage
    \/ \E caller \in ContractsIdentityCallers, new_owner \in RecoveryArgs :
          /\ transfer_ownership(caller, new_owner)
          /\ UNCHANGED book_storage
    \/ \E caller \in ContractsNetworkCallers, name \in ContractsNameArgs :
          /\ (caller = admin /\ Len(name) <= NETWORK_NAME_LIMIT)
                => network_id_counter < MaxContractsCount
          /\ add_network(caller, name)
          /\ UNCHANGED book_storage
    \/ \E caller \in ContractsNetworkCallers, network_id \in ContractsNetworkArgs,
          name \in ContractsNameArgs :
          /\ update_network(caller, network_id, name)
          /\ UNCHANGED book_storage
    \/ \E caller \in ContractsNetworkCallers, network_id \in ContractsNetworkArgs :
          /\ remove_network(caller, network_id)
          /\ UNCHANGED book_storage
    \/ \E caller \in ContractsBookCallers :
          create_address_book(caller)
    \/ \E caller \in ContractsBookCallers :
          remove_address_book(caller)
    \/ \E caller \in ContractsBookCallers, identity_no \in ContractsIdentityArgs,
          nickname \in ContractsNicknameArgs :
          AddressBook_add_identity(caller, identity_no, nickname)
    \/ \E caller \in ContractsBookCallers, identity_no \in ContractsIdentityArgs :
          AddressBook_remove_identity(caller, identity_no)
    \/ \E caller \in ContractsBookCallers, identity_no \in ContractsIdentityArgs,
          nickname \in ContractsNicknameArgs :
          update_nickname(caller, identity_no, nickname)

SpecContracts == Init /\ [][NextContracts]_vars

\* Two accounts that each create an identity and keep an address book: the
\* messages that write what belongs to the caller, called by both.
MaxIsolationCount == 2

IsolationCallers == {"alice", "bob"}

IsolationBookArgs == {0}

NextIsolation ==
    \/ \E caller \in IsolationCallers :
          /\ contains(identity_of, caller) \/ identity_count < MaxIsolationCount
          /\ create_identity(caller)
          /\ UNCHANGED book_storage
    \/ \E caller \in IsolationCallers, network \in AddressNetworkArgs :
          /\ add_address(caller, network, <<1>>)
          /\ UNCHANGED book_storage
    \/ \E caller \in IsolationCallers, network \in AddressNetworkArgs :
          /\ update_address(caller, network, <<2>>)
          /\ UNCHANGED book_storage
    \/ \E caller \in IsolationCallers, network \in AddressNetworkArgs :
          /\ remove_address(caller, network)
          /\ UNCHANGED book_storage
    \/ \E caller \in IsolationCallers, recovery_account \in RecoveryArgs :
          /\ set_recovery_account(caller, recovery_account)
          /\ UNCHANGED book_storage
    \/ \E caller \in IsolationCallers :
          /\ remove_identity(caller)
          /\ UNCHANGED book_storage
    \/ \E caller \in IsolationCallers :
          create_address_book(caller)
    \/ \E caller \in IsolationCallers :
          remove_address_book(caller)
    \/ \E caller \in IsolationCallers, identity_no \in IsolationBookArgs :
          AddressBook_add_identity(caller, identity_no, None)
    \/ \E caller \in IsolationCallers, identity_no \in IsolationBookArgs :
          AddressBook_remove_identity(caller, identity_no)
    \/ \E caller \in IsolationCallers, identity_no \in IsolationBookArgs :
          update_nickname(caller, identity_no, Some(<<98>>))

SpecIsolation == Init /\ [][NextIsolation]_vars

\* The Identity contract with its counter one below u32::MAX: the state a
\* fresh contract is in after one account has created and removed an
\* identity u32::MAX - 1 times.  From here the counter saturates after two
\* more identities, so no bound on it is needed.
InitNearMax ==
    /\ number_to_identity = EmptyMapping
    /\ owner_of = EmptyMapping
    /\ identity_of = EmptyMapping
    /\ identity_count = U32_MAX - 1
    /\ network_name = EmptyMapping
    /\ network_id_counter = 0
    /\ recovery_account_of = EmptyMapping
    /\ admin = Deployer
    /\ address_book_of = EmptyMapping
    /\ identity_contract = IdentityContract
    /\ last = Call("remove_identity", Deployer, <<>>, Ok(Unit),
                   <<[event |-> "IdentityRemoved", identity_no |-> U32_MAX - 2]>>)

NearMaxAddressArgs == {<<1>>}

NextNearMax ==
    \/ \E caller \in Accounts :
          /\ create_identity(caller)
          /\ UNCHANGED book_storage
    \/ \E caller \in Accounts, network \in AddressNetworkArgs,
          address \in NearMaxAddressArgs :
          /\ add_address(caller, network, address)
          /\ UNCHANGED book_storage
    \/ \E caller \in Accounts, network \in AddressNetworkArgs,
          address \in NearMaxAddressArgs :
          /\ update_address(caller, network, address)
          /\ UNCHANGED book_storage
    \/ \E caller \in Accounts, network \in AddressNetworkArgs :
          /\ remove_address(caller, network)
          /\ UNCHANGED book_storage
    \/ \E caller \in Accounts :
          /\ remove_identity(caller)
          /\ UNCHANGED book_storage

SpecNearMax == InitNearMax /\ [][NextNearMax]_vars

----------------------------------------------------------------------------
(* Properties.  `last'` is the call a step makes, so an action formula      *)
(* over `last'` and the unprimed storage relates a call to the state it     *)
(* ran in.                                                                  *)

failed_with(call, error) == ~call.result.ok /\ call.result.err = error

succeeded(call) == call.result.ok

\* C1: owner_of and identity_of are mutual inverses in every reachable state:
\* owner_of[n] = a if and only if identity_of[a] = n.
C1_MutualInverses ==
    /\ \A n \in DOMAIN owner_of :
          contains(identity_of, owner_of[n]) /\ identity_of[owner_of[n]] = n
    /\ \A a \in DOMAIN identity_of :
          contains(owner_of, identity_of[a]) /\ owner_of[identity_of[a]] = a

\* C2: no account is recorded in owner_of as the owner of more than one
\* identity number.
C2_OneIdentityPerAccount ==
    \A n \in DOMAIN owner_of : \A m \in DOMAIN owner_of :
        owner_of[n] = owner_of[m] => n = m

\* C3: a transfer_ownership by an identity owner whose new_owner already
\* owns a different identity fails with AlreadyIdentityOwner and leaves the
\* storage unchanged.
C3_TransferToOwnerFails ==
    [][ (/\ last'.op = "transfer_ownership"
         /\ contains(identity_of, last'.caller)
         /\ contains(identity_of, last'.args[1])
         /\ identity_of[last'.args[1]] # identity_of[last'.caller])
        => (failed_with(last', "AlreadyIdentityOwner") /\ UNCHANGED storage) ]_vars

\* C4: once the owner of identity i has set r as recovery account, a
\* transfer_ownership to new_owner invoked by r, who owns no identity,
\* succeeds whenever the owner's own call would, and moves i to new_owner.
C4_RecoveryAccountTransfers ==
    [][ \A i \in DOMAIN owner_of :
          (/\ last'.op = "transfer_ownership"
           /\ contains(recovery_account_of, i)
           /\ recovery_account_of[i] = last'.caller
           /\ ~contains(identity_of, last'.caller)
           /\ contains(identity_of, owner_of[i])
           /\ identity_of[owner_of[i]] = i
           /\ ~contains(identity_of, last'.args[1]))
          => (/\ succeeded(last')
              /\ contains(owner_of', i) /\ owner_of'[i] = last'.args[1]
              /\ ~contains(identity_of', owner_of[i])
              /\ contains(identity_of', last'.args[1])
              /\ identity_of'[last'.args[1]] = i) ]_vars

\* a is the recorded owner of identity i, or its registered recovery account.
authorised_for(a, i) ==
    \/ (contains(owner_of, i) /\ owner_of[i] = a)
    \/ (contains(recovery_account_of, i) /\ recovery_account_of[i] = a)

IdentityNumbers ==
    DOMAIN owner_of \cup DOMAIN number_to_identity \cup DOMAIN recovery_account_of

\* C5: a transfer_ownership by an account that is neither the owner nor the
\* recovery account of any identity fails with NotAllowed and changes no
\* storage; and no transfer_ownership changes or removes the owner of an
\* identity whose owner and recovery account are both other than the caller.
C5_UnauthorisedTransferFails ==
    [][ last'.op = "transfer_ownership" =>
          /\ (\A i \in IdentityNumbers : ~authorised_for(last'.caller, i))
                => (failed_with(last', "NotAllowed") /\ UNCHANGED storage)
          /\ \A i \in DOMAIN owner_of :
                ~authorised_for(last'.caller, i)
                   => (contains(owner_of', i) /\ owner_of'[i] = owner_of[i]) ]_vars

\* C5 witness: bob, who owns nothing and is no recovery account, was refused
\* while alice's identity with recovery account charlie exists.
C5_Witness ==
    /\ last.op = "transfer_ownership" /\ last.caller = "bob"
    /\ failed_with(last, "NotAllowed")
    /\ contains(owner_of, 0) /\ owner_of[0] = "alice"
    /\ contains(recovery_account_of, 0) /\ recovery_account_of[0] = "charlie"
    /\ \A i \in IdentityNumbers : ~authorised_for("bob", i)

\* The effect of a successful transfer_ownership; the reverse mapping of the
\* old owner is cleared when new_owner is another account and, with
\* `also_to_self`, in a transfer to the owner itself as well.
transfer_effect(also_to_self) ==
    (last'.op = "transfer_ownership" /\ succeeded(last')) =>
        LET old == last'.caller
            new == last'.args[1]
            i == identity_of[old]
        IN /\ owner_of[i] = old
           /\ owner_of' = insert(owner_of, i, new)
           /\ contains(identity_of', new) /\ identity_of'[new] = i
           /\ (also_to_self \/ old # new) => ~contains(identity_of', old)
           /\ \A a \in Accounts \ {old, new} :
                 /\ contains(identity_of', a) = contains(identity_of, a)
                 /\ contains(identity_of, a) => identity_of'[a] = identity_of[a]
           /\ UNCHANGED <<number_to_identity, recovery_account_of, identity_count,
                          network_name, network_id_counter, admin>>

\* C6 as stated: a successful transfer_ownership of i from the old owner to
\* new_owner sets owner_of[i] = new_owner, clears identity_of[old owner],
\* sets identity_of[new_owner] = i and leaves the address maps, the recovery
\* accounts, the counter and the owner of every other identity unchanged.
C6_TransferEffect_Original ==
    [][ transfer_effect(TRUE) ]_vars

\* C6 amended: as above, with identity_of[old owner] cleared when new_owner
\* is another account; a transfer to the owner itself succeeds and leaves
\* identity_of[owner] = i.
C6_TransferEffect ==
    [][ transfer_effect(FALSE) ]_vars

\* C6 witness: alice's identity 0, holding an address and a recovery account,
\* has moved to bob while charlie's identity 1 exists.
C6_Witness ==
    /\ last.op = "transfer_ownership" /\ succeeded(last)
    /\ last.caller = "alice" /\ last.args[1] = "bob"
    /\ contains(owner_of, 0) /\ owner_of[0] = "bob"
    /\ contains(number_to_identity, 0) /\ Len(number_to_identity[0]) = 1
    /\ contains(recovery_account_of, 0)
    /\ contains(owner_of, 1) /\ owner_of[1] = "charlie"

\* C7: create_identity by a caller who already owns an identity fails with
\* AlreadyIdentityOwner and leaves the counter and all maps unchanged.
C7_CreateTwiceFails ==
    [][ (last'.op = "create_identity" /\ contains(identity_of, last'.caller))
        => (failed_with(last', "AlreadyIdentityOwner") /\ UNCHANGED storage) ]_vars

OwnerMessages ==
    {"add_address", "update_address", "remove_address", "remove_identity",
     "set_recovery_account"}

\* C10: add_address, update_address, remove_address, remove_identity and
\* set_recovery_account by a caller with no identity fail with NotAllowed and
\* leave the storage unchanged, whatever the arguments and whatever the
\* other accounts own.
C10_NoIdentityNotAllowed ==
    [][ (last'.op \in OwnerMessages /\ ~contains(identity_of, last'.caller))
        => (failed_with(last', "NotAllowed") /\ UNCHANGED storage) ]_vars

\* C10 witness: charlie, who owns nothing, was refused set_recovery_account
\* while alice and bob each own an identity.
C10_Witness ==
    /\ last.op = "set_recovery_account" /\ last.caller = "charlie"
    /\ failed_with(last, "NotAllowed")
    /\ ~contains(identity_of, "charlie")
    /\ contains(identity_of, "alice") /\ contains(identity_of, "bob")

----------------------------------------------------------------------------
(* The address list of an identity *)

\* The call in `last'` is made by an account whose identity is stored.
by_owner(op) ==
    /\ last'.op = op
    /\ contains(identity_of, last'.caller)
    /\ contains(number_to_identity, identity_of[last'.caller])

\* The address list of the caller of `last'`, before and after the call.
addresses_before == number_to_identity[identity_of[last'.caller]]

addresses_after == number_to_identity'[identity_of[last'.caller]]

\* The step is a successful remove_address(network) by the owner of identity_no.
removes_address(identity_no, network) ==
    /\ by_owner("remove_address") /\ succeeded(last')
    /\ identity_of[last'.caller] = identity_no
    /\ last'.args[1] = network

\* C11: once an identity has an address for a network (a successful
\* add_address puts one there, and only a successful remove_address for that
\* network by the owner takes it away while the identity is stored), an
\* add_address for that network by the owner with an address within the size
\* limit fails with AddressAlreadyAdded, whatever the bytes, and changes
\* nothing.
C11_SecondAddFails ==
    [][ /\ (by_owner("add_address") /\ succeeded(last'))
            => has_network(addresses_after, last'.args[1])
        /\ \A identity_no \in DOMAIN number_to_identity : \A network \in NetworkIds :
              (/\ has_network(number_to_identity[identity_no], network)
               /\ contains(number_to_identity', identity_no)
               /\ ~removes_address(identity_no, network))
              => has_network(number_to_identity'[identity_no], network)
        /\ (/\ by_owner("add_address")
            /\ Len(last'.args[2]) <= ADDRESS_SIZE_LIMIT
            /\ has_network(addresses_before, last'.args[1]))
           => (failed_with(last', "AddressAlreadyAdded") /\ UNCHANGED storage) ]_vars

\* C11 witness: the owner of identity 0, which holds <<1>> for network 1, was
\* refused a second add_address for network 1 with a different address of
\* exactly ADDRESS_SIZE_LIMIT bytes.
C11_Witness ==
    /\ last.op = "add_address" /\ failed_with(last, "AddressAlreadyAdded")
    /\ last.args = <<1, Bytes(ADDRESS_SIZE_LIMIT, 2)>>
    /\ contains(identity_of, last.caller) /\ identity_of[last.caller] = 0
    /\ contains(number_to_identity, 0)
    /\ number_to_identity[0] = <<(<<1, <<1>>>>)>>

\* C12: in every reachable state the address list of each identity has at
\* most one entry per network id.
C12_OneAddressPerNetwork ==
    \A identity_no \in DOMAIN number_to_identity :
        LET addresses == number_to_identity[identity_no] IN
        \A i \in 1..Len(addresses) : \A j \in 1..Len(addresses) :
            addresses[i][1] = addresses[j][1] => i = j

\* C12 witness: a successful add_address has just given an identity its
\* second entry, for the network it had no address for.
C12_Witness ==
    /\ last.op = "add_address" /\ succeeded(last)
    /\ contains(identity_of, last.caller)
    /\ contains(number_to_identity, identity_of[last.caller])
    /\ LET addresses == number_to_identity[identity_of[last.caller]] IN
       /\ Len(addresses) = 2
       /\ addresses[1][1] # addresses[2][1]
       /\ addresses[2][1] = last.args[1]

\* C13: in every reachable state every address stored in an identity's list
\* is at most ADDRESS_SIZE_LIMIT bytes long, whichever of add_address and
\* update_address wrote it.
C13_StoredAddressWithinLimit ==
    \A identity_no \in DOMAIN number_to_identity :
        LET addresses == number_to_identity[identity_no] IN
        \A i \in 1..Len(addresses) : Len(addresses[i][2]) <= ADDRESS_SIZE_LIMIT

\* C13 witness: an identity holds two addresses of exactly ADDRESS_SIZE_LIMIT
\* bytes, the one for network 0 just written by update_address and the one
\* for network 1 appended after it by add_address.
C13_Witness ==
    /\ last.op = "update_address" /\ succeeded(last)
    /\ last.args = <<0, Bytes(ADDRESS_SIZE_LIMIT, 2)>>
    /\ contains(identity_of, last.caller)
    /\ contains(number_to_identity, identity_of[last.caller])
    /\ number_to_identity[identity_of[last.caller]] =
          << <<0, Bytes(ADDRESS_SIZE_LIMIT, 2)>>, <<1, Bytes(ADDRESS_SIZE_LIMIT, 2)>> >>

\* C14: add_address and update_address by an identity's owner with an address
\* longer than ADDRESS_SIZE_LIMIT fail with AddressSizeExceeded, whether or
\* not the identity has an address for the network, and change nothing; an
\* address of exactly ADDRESS_SIZE_LIMIT bytes is accepted: add_address
\* succeeds with it on a network without an address, update_address on a
\* network with one.
C14_AddressSizeLimit ==
    [][ /\ (/\ by_owner("add_address") \/ by_owner("update_address")
            /\ Len(last'.args[2]) >= ADDRESS_SIZE_LIMIT + 1)
           => (failed_with(last', "AddressSizeExceeded") /\ UNCHANGED storage)
        /\ (/\ by_owner("add_address")
            /\ Len(last'.args[2]) = ADDRESS_SIZE_LIMIT
            /\ ~has_network(addresses_before, last'.args[1]))
           => succeeded(last')
        /\ (/\ by_owner("update_address")
            /\ Len(last'.args[2]) = ADDRESS_SIZE_LIMIT
            /\ has_network(addresses_before, last'.args[1]))
           => succeeded(last') ]_vars

\* C14 witness: the owner of an identity that holds an address of exactly
\* ADDRESS_SIZE_LIMIT bytes for network 0 was refused an update_address of
\* that network to an address one byte longer.
C14_Witness ==
    /\ last.op = "update_address" /\ failed_with(last, "AddressSizeExceeded")
    /\ last.args = <<0, Bytes(ADDRESS_SIZE_LIMIT + 1, 3)>>
    /\ contains(identity_of, last.caller)
    /\ contains(number_to_identity, identity_of[last.caller])
    /\ number_to_identity[identity_of[last.caller]] =
          << <<0, Bytes(ADDRESS_SIZE_LIMIT, 2)>> >>

\* The network ids an address list has entries for.
networks_of(addresses) == {addresses[i][1] : i \in 1..Len(addresses)}

\* update_address (with any address if any_size, else with one within the
\* size limit) and remove_address by an owner whose identity has no address
\* for the network fail with InvalidNetwork and change nothing, and no
\* update_address step changes which networks any identity has entries for.
missing_network_fails(any_size) ==
    /\ (/\ by_owner("update_address")
        /\ any_size \/ Len(last'.args[2]) <= ADDRESS_SIZE_LIMIT
        /\ ~has_network(addresses_before, last'.args[1]))
       => (failed_with(last', "InvalidNetwork") /\ UNCHANGED storage)
    /\ (/\ by_owner("remove_address")
        /\ ~has_network(addresses_before, last'.args[1]))
       => (failed_with(last', "InvalidNetwork") /\ UNCHANGED storage)
    /\ last'.op = "update_address"
       => /\ DOMAIN number_to_identity' = DOMAIN number_to_identity
          /\ \A identity_no \in DOMAIN number_to_identity :
                /\ networks_of(number_to_identity'[identity_no])
                      = networks_of(number_to_identity[identity_no])
                /\ Len(number_to_identity'[identity_no])
                      = Len(number_to_identity[identity_no])

\* C15 as stated: update_address with any address, and remove_address, by an
\* owner whose identity has no address for the network fail with
\* InvalidNetwork and change nothing; update_address creates no entry.
C15_MissingNetwork_Original ==
    [][ missing_network_fails(TRUE) ]_vars

\* C15: update_address with an address within ADDRESS_SIZE_LIMIT, and
\* remove_address, by an owner whose identity has no address for the network
\* fail with InvalidNetwork and change nothing (an address over the limit is
\* refused with AddressSizeExceeded before the network is looked up);
\* update_address never creates an entry.
C15_MissingNetwork ==
    [][ missing_network_fails(FALSE) ]_vars

\* C15 witness: the owner of an identity whose only address is for network 0
\* was refused an update_address of network 1 to an address within the limit.
C15_Witness ==
    /\ last.op = "update_address" /\ failed_with(last, "InvalidNetwork")
    /\ last.args = <<1, <<1>>>>
    /\ contains(identity_of, last.caller)
    /\ contains(number_to_identity, identity_of[last.caller])
    /\ networks_of(number_to_identity[identity_of[last.caller]]) = {0}

\* The addresses a list holds for a network.
addresses_for(addresses, network) ==
    {addresses[i][2] : i \in {j \in 1..Len(addresses) : addresses[j][1] = network}}

\* The step changes nothing but the address list of the caller's identity.
only_callers_addresses_change ==
    /\ DOMAIN number_to_identity' = DOMAIN number_to_identity
    /\ \A identity_no \in DOMAIN number_to_identity \ {identity_of[last'.caller]} :
          number_to_identity'[identity_no] = number_to_identity[identity_no]
    /\ UNCHANGED <<owner_of, identity_of, recovery_account_of, identity_count,
                   network_name, network_id_counter, admin>>

\* C16: a successful add_address(c, addr) appends (c, addr), so the address
\* stored for c is addr; a successful update_address(c, addr2) puts addr2 at
\* the position of the entry for c and leaves the other entries as they were;
\* a successful remove_address(c) cuts the entry for c out, leaving no address
\* for c and the other entries as they were, in their order.  The lists of
\* other identities and the rest of the storage do not change.
C16_AddressRoundTrip ==
    [][ /\ (by_owner("add_address") /\ succeeded(last'))
           => /\ addresses_after = addresses_before \o << <<last'.args[1], last'.args[2]>> >>
              /\ addresses_for(addresses_after, last'.args[1]) = {last'.args[2]}
              /\ only_callers_addresses_change
        /\ (by_owner("update_address") /\ succeeded(last'))
           => /\ Len(addresses_after) = Len(addresses_before)
              /\ \A i \in 1..Len(addresses_before) :
                    addresses_after[i] =
                       IF addresses_before[i][1] = last'.args[1]
                       THEN <<last'.args[1], last'.args[2]>>
                       ELSE addresses_before[i]
              /\ addresses_for(addresses_after, last'.args[1]) = {last'.args[2]}
              /\ only_callers_addresses_change
        /\ (by_owner("remove_address") /\ succeeded(last'))
           => /\ \E i \in 1..Len(addresses_before) :
                    /\ addresses_before[i][1] = last'.args[1]
                    /\ addresses_after = SubSeq(addresses_before, 1, i - 1)
                                         \o SubSeq(addresses_before, i + 1,
                                                   Len(addresses_before))
              /\ addresses_for(addresses_after, last'.args[1]) = {}
              /\ only_callers_addresses_change ]_vars

\* C16 witness: update_address(0, _) has just written its address into the
\* first of two entries; the entry for network 1 still follows it.
C16_Witness ==
    /\ last.op = "update_address" /\ succeeded(last)
    /\ last.args = <<0, Bytes(ADDRESS_SIZE_LIMIT, 2)>>
    /\ contains(identity_of, last.caller)
    /\ contains(number_to_identity, identity_of[last.caller])
    /\ number_to_identity[identity_of[last.caller]] =
          << <<0, Bytes(ADDRESS_SIZE_LIMIT, 2)>>, <<1, <<1>>>> >>

----------------------------------------------------------------------------
(* Removing an identity; the recovery account *)

\* Mapping `after` is mapping `before` without key k.
without(after, before, k) ==
    /\ DOMAIN after = DOMAIN before \ {k}
    /\ \A x \in DOMAIN after : after[x] = before[x]

C18_SetRecoveryAccount ==
    [][ /\ (last'.op = "set_recovery_account" /\ contains(identity_of, last'.caller))
           => LET n == identity_of[last'.caller] IN
              /\ succeeded(last')
              /\ DOMAIN recovery_account_of' = DOMAIN recovery_account_of \cup {n}
              /\ recovery_account_of'[n] = last'.args[1]
              /\ \A m \in DOMAIN recovery_account_of \ {n} :
                    recovery_account_of'[m] = recovery_account_of[m]
              /\ UNCHANGED <<number_to_identity, owner_of, identity_of, identity_count,
                             network_name, network_id_counter, admin>>
        /\ recovery_account_of' # recovery_account_of
           => /\ last'.op = "set_recovery_account" /\ succeeded(last')
              /\ contains(identity_of, last'.caller) ]_vars

\* C18 witness: bob, the owner of identity 1, has just set charlie as its
\* recovery account, while identity 0 has bob as its recovery account.
C18_Witness ==
    /\ last.op = "set_recovery_account" /\ succeeded(last)
    /\ last.caller = "bob" /\ last.args = <<"charlie">>
    /\ contains(identity_of, "bob") /\ identity_of["bob"] = 1
    /\ contains(owner_of, 1) /\ owner_of[1] = "bob"
    /\ DOMAIN recovery_account_of = {0, 1}
    /\ recovery_account_of[0] = "bob" /\ recovery_account_of[1] = "charlie"

----------------------------------------------------------------------------
(* The network directory *)

NetworkMessages == {"add_network", "update_network", "remove_network"}

\* C19: add_network, update_network and remove_network called by anyone but
\* admin fail with NotAllowed and change nothing, whatever the arguments;
\* the network names and the id counter change only in a network message
\* called by admin, and admin itself never changes.
C19_OnlyAdminChangesNetworks ==
    [][ /\ (last'.op \in NetworkMessages /\ last'.caller # admin)
           => (failed_with(last', "NotAllowed") /\ UNCHANGED storage)
        /\ <<network_name, network_id_counter>>' # <<network_name, network_id_counter>>
           => (last'.op \in NetworkMessages /\ last'.caller = admin /\ succeeded(last'))
        /\ admin' = admin ]_vars

\* C19 witness: bob, who is not admin, was refused remove_network(0) while
\* network 0 is in the directory.
C19_Witness ==
    /\ last.op = "remove_network" /\ last.caller = "bob" /\ last.args = <<0>>
    /\ admin # "bob"
    /\ failed_with(last, "NotAllowed")
    /\ contains(network_name, 0)

\* The name argument of the add_network or update_network call in `last'`.
name_argument ==
    IF last'.op = "add_network" THEN last'.args[1] ELSE last'.args[2]

\* C20: add_network and update_network called by admin with a name longer
\* than NETWORK_NAME_LIMIT fail with NetworkNameTooLong, update_network even
\* for an id that is not in the directory, and change nothing: no name is
\* written and network_id_counter is not advanced.  No name in the directory
\* is ever longer than NETWORK_NAME_LIMIT.
C20_NetworkNameLimit ==
    [][ /\ (/\ last'.op \in {"add_network", "update_network"}
            /\ last'.caller = admin
            /\ Len(name_argument) > NETWORK_NAME_LIMIT)
           => (failed_with(last', "NetworkNameTooLong") /\ UNCHANGED storage)
        /\ \A network_id \in DOMAIN network_name' :
              Len(network_name'[network_id]) <= NETWORK_NAME_LIMIT ]_vars

\* C20 witness: admin was refused update_network(0, _) with a name one byte
\* over the limit; network 0 keeps its name and the counter stands at 1.
C20_Witness ==
    /\ last.op = "update_network" /\ last.caller = admin
    /\ last.args = <<0, Bytes(NETWORK_NAME_LIMIT + 1, 97)>>
    /\ failed_with(last, "NetworkNameTooLong")
    /\ network_name = [network_id \in {0} |-> <<80>>]
    /\ network_id_counter = 1

\* update_network (with any name if any_length, else with one within the
\* limit) and remove_network by admin on an id that is not in the directory
\* fail with InvalidNetwork and change nothing; a successful remove_network
\* leaves no entry for its id.
unknown_network_fails(any_length) ==
    /\ (/\ last'.op = "update_network" /\ last'.caller = admin
        /\ any_length \/ Len(last'.args[2]) <= NETWORK_NAME_LIMIT
        /\ ~contains(network_name, last'.args[1]))
       => (failed_with(last', "InvalidNetwork") /\ UNCHANGED storage)
    /\ (/\ last'.op = "remove_network" /\ last'.caller = admin
        /\ ~contains(network_name, last'.args[1]))
       => (failed_with(last', "InvalidNetwork") /\ UNCHANGED storage)
    /\ (last'.op = "remove_network" /\ succeeded(last'))
       => ~contains(network_name', last'.args[1])

\* C21 as stated: update_network with any name, and remove_network, by admin
\* on an id that is not in the directory fail with InvalidNetwork and change
\* nothing; after a successful remove_network(id) there is no entry for id.
C21_UnknownNetwork_Original ==
    [][ unknown_network_fails(TRUE) ]_vars

\* C21: update_network with a name within NETWORK_NAME_LIMIT, and
\* remove_network, by admin on an id that is not in the directory (never
\* added, or removed) fail with InvalidNetwork and change nothing (a longer
\* name is refused with NetworkNameTooLong before the id is looked up); after
\* a successful remove_network(id) there is no entry for id.
C21_UnknownNetwork ==
    [][ unknown_network_fails(FALSE) ]_vars

\* C21 witness: admin was refused update_network(0, "K"): network 0 was
\* added and removed, only network 1 is in the directory.
C21_Witness ==
    /\ last.op = "update_network" /\ last.caller = admin
    /\ last.args = <<0, <<75>>>>
    /\ failed_with(last, "InvalidNetwork")
    /\ network_id_counter = 2
    /\ DOMAIN network_name = {1}

----------------------------------------------------------------------------
(* Events *)

\* The messages of the Identity contract that write to storage.
MutatingMessages ==
    {"create_identity", "add_address", "update_address", "remove_address",
     "remove_identity", "set_recovery_account", "transfer_ownership",
     "add_network", "update_network", "remove_network"}

\* C23: every successful mutating message has emitted exactly one event.
C23_OneEventPerSuccess ==
    (last.op \in MutatingMessages /\ succeeded(last)) => Len(last.events) = 1

----------------------------------------------------------------------------
(* Resolving the destination of a transaction *)

----------------------------------------------------------------------------
(* The address book *)

\* The step leaves the book of every account but the caller of `last'`, and
\* everything outside address_book_of, as it was.
only_callers_book_changes ==
    /\ DOMAIN address_book_of' \ {last'.caller} = DOMAIN address_book_of \ {last'.caller}
    /\ \A account \in DOMAIN address_book_of \ {last'.caller} :
          address_book_of'[account] = address_book_of[account]
    /\ UNCHANGED <<storage, identity_contract>>

\* C25: address_book_of holds at most one book per account.
\* create_address_book fails with AddressBookAlreadyCreated exactly when the
\* caller has a book, changing nothing, and otherwise gives the caller an
\* empty book; remove_address_book fails with AddressBookDoesntExist exactly
\* when the caller has none and otherwise deletes the caller's book, so the
\* book created after it is empty.
C25_OneBookPerAccount ==
    [][ /\ last'.op = "create_address_book"
           => IF contains(address_book_of, last'.caller)
              THEN /\ failed_with(last', "AddressBookAlreadyCreated")
                   /\ UNCHANGED <<storage, book_storage>>
              ELSE /\ succeeded(last')
                   /\ contains(address_book_of', last'.caller)
                   /\ address_book_of'[last'.caller] = <<>>
                   /\ only_callers_book_changes
        /\ last'.op = "remove_address_book"
           => IF ~contains(address_book_of, last'.caller)
              THEN /\ failed_with(last', "AddressBookDoesntExist")
                   /\ UNCHANGED <<storage, book_storage>>
              ELSE /\ succeeded(last')
                   /\ ~contains(address_book_of', last'.caller)
                   /\ only_callers_book_changes ]_vars

\* C25 witness: alice was refused a second address book; the one she has
\* holds two identities.
C25_Witness ==
    /\ last.op = "create_address_book" /\ last.caller = "alice"
    /\ failed_with(last, "AddressBookAlreadyCreated")
    /\ contains(address_book_of, "alice")
    /\ Len(address_book_of["alice"]) = 2

\* The call in `last'` is an address book message by an account with a book.
by_book_owner(op) ==
    /\ last'.op = op
    /\ contains(address_book_of, last'.caller)

\* The caller's book before and after the call in `last'`.
book_before == address_book_of[last'.caller]

book_after == address_book_of'[last'.caller]

\* The identity numbers a book has records for.
identities_in(book) == {book[i][1] : i \in 1..Len(book)}

\* add_identity(n, nickname) by an account with a book fails with
\* IdentityDoesntExist, changing nothing, when the Identity contract has no
\* identity n, and succeeds only when it has one.  When it has one, the call
\* succeeds always (if_and_only_if), or else when n is not in the book yet
\* and the nickname is None or within NICKNAME_LENGTH_LIMIT.
add_identity_checks_identity(if_and_only_if) ==
    by_book_owner("AddressBook::add_identity")
    => LET n == last'.args[1]
           nickname == last'.args[2]
       IN /\ succeeded(last') => contains(number_to_identity, n)
          /\ ~contains(number_to_identity, n)
             => /\ failed_with(last', "IdentityDoesntExist")
                /\ UNCHANGED <<storage, book_storage>>
          /\ (/\ contains(number_to_identity, n)
              /\ \/ if_and_only_if
                 \/ /\ n \notin identities_in(book_before)
                    /\ nickname = None \/ Len(nickname[1]) <= NICKNAME_LENGTH_LIMIT)
             => succeeded(last')
          /\ ~succeeded(last') => UNCHANGED <<storage, book_storage>>

\* C26 as stated: add_identity(n, nickname) by an account with a book
\* succeeds if and only if identity(n) is Some at the time of the call, and
\* otherwise fails with the book unchanged.
C26_AddIdentity_Original ==
    [][ add_identity_checks_identity(TRUE) ]_vars

\* C26: add_identity(n, nickname) by an account with a book succeeds only if
\* identity(n) is Some at the time of the call, and fails with
\* IdentityDoesntExist when it is None; when it is Some the call succeeds if
\* n is not in the caller's book and the nickname is within the limit.  A
\* failed call leaves the book unchanged.
C26_AddIdentity ==
    [][ add_identity_checks_identity(FALSE) ]_vars

\* C26 witness: alice, whose book holds identity 0, was refused identity 1,
\* which was created and removed again.
C26_Witness ==
    /\ last.op = "AddressBook::add_identity" /\ last.caller = "alice"
    /\ last.args = <<1, None>>
    /\ failed_with(last, "IdentityDoesntExist")
    /\ identity_count = 2 /\ ~contains(number_to_identity, 1)
    /\ contains(address_book_of, "alice")
    /\ address_book_of["alice"] = << <<0, None>> >>

\* No book has two records with one identity number after the step, and
\* add_identity of a number that is in the caller's book fails and changes
\* nothing, whatever the nickname: with IdentityAlreadyAdded always
\* (also_removed), or else while the Identity contract still has the identity.
duplicate_add_fails(also_removed) ==
    /\ \A account \in DOMAIN address_book_of' :
          LET book == address_book_of'[account] IN
          \A i \in 1..Len(book) : \A j \in 1..Len(book) :
              book[i][1] = book[j][1] => i = j
    /\ (/\ by_book_owner("AddressBook::add_identity")
        /\ last'.args[1] \in identities_in(book_before))
       => /\ ~succeeded(last')
          /\ UNCHANGED <<storage, book_storage>>
          /\ (also_removed \/ contains(number_to_identity, last'.args[1]))
             => failed_with(last', "IdentityAlreadyAdded")

\* C27 as stated: every book has at most one record per identity number, and
\* add_identity of a number already in the caller's book fails with
\* IdentityAlreadyAdded and leaves the book unchanged, whatever the nickname.
C27_OneRecordPerIdentity_Original ==
    [][ duplicate_add_fails(TRUE) ]_vars

\* C27: every book has at most one record per identity number; add_identity
\* of a number already in the caller's book fails and leaves the book
\* unchanged, whatever the nickname, also one over the length limit: with
\* IdentityAlreadyAdded while the identity exists in the Identity contract
\* (with IdentityDoesntExist once it was removed there).
C27_OneRecordPerIdentity ==
    [][ duplicate_add_fails(FALSE) ]_vars

\* C27 witness: alice, whose book holds identity 0 without a nickname, was
\* refused add_identity(0, _) with a nickname of NICKNAME_LENGTH_LIMIT chars.
C27_Witness ==
    /\ last.op = "AddressBook::add_identity" /\ last.caller = "alice"
    /\ last.args = <<0, Some(Bytes(NICKNAME_LENGTH_LIMIT, 98))>>
    /\ failed_with(last, "IdentityAlreadyAdded")
    /\ contains(number_to_identity, 0)
    /\ contains(address_book_of, "alice")
    /\ address_book_of["alice"] = << <<0, None>> >>

\* A nickname of more than NICKNAME_LENGTH_LIMIT chars.
too_long(nickname) == nickname # None /\ Len(nickname[1]) >= NICKNAME_LENGTH_LIMIT + 1

\* After the step no stored nickname is longer than NICKNAME_LENGTH_LIMIT.
\* add_identity and update_nickname by an account with a book fail with a
\* nickname that is too long and change nothing: update_nickname with
\* NickNameTooLong, add_identity with NickNameTooLong always (any_identity),
\* or else when the identity exists and is not in the book.  With None or a
\* nickname within the limit add_identity succeeds for an identity that
\* exists and is not in the book, update_nickname for one that is in it.
nickname_limit(any_identity) ==
    /\ \A account \in DOMAIN address_book_of' :
          LET book == address_book_of'[account] IN
          \A i \in 1..Len(book) :
              book[i][2] = None \/ Len(book[i][2][1]) <= NICKNAME_LENGTH_LIMIT
    /\ (by_book_owner("AddressBook::add_identity") /\ too_long(last'.args[2]))
       => /\ ~succeeded(last')
          /\ UNCHANGED <<storage, book_storage>>
          /\ (\/ any_identity
              \/ /\ contains(number_to_identity, last'.args[1])
                 /\ last'.args[1] \notin identities_in(book_before))
             => failed_with(last', "NickNameTooLong")
    /\ (by_book_owner("update_nickname") /\ too_long(last'.args[2]))
       => /\ failed_with(last', "NickNameTooLong")
          /\ UNCHANGED <<storage, book_storage>>
    /\ (/\ by_book_owner("AddressBook::add_identity") /\ ~too_long(last'.args[2])
        /\ contains(number_to_identity, last'.args[1])
        /\ last'.args[1] \notin identities_in(book_before))
       => /\ succeeded(last')
          /\ book_after[Len(book_after)] = <<last'.args[1], last'.args[2]>>
    /\ (/\ by_book_owner("update_nickname") /\ ~too_long(last'.args[2])
        /\ last'.args[1] \in identities_in(book_before))
       => succeeded(last')

\* C28 as stated: no stored nickname is longer than NICKNAME_LENGTH_LIMIT;
\* add_identity and update_nickname with a nickname of 17 chars fail with
\* NickNameTooLong and leave the book unchanged; 16 chars and None are
\* accepted.
C28_NicknameLimit_Original ==
    [][ nickname_limit(TRUE) ]_vars

\* C28: no stored nickname is longer than NICKNAME_LENGTH_LIMIT; with a
\* nickname of 17 chars update_nickname by an account with a book fails with
\* NickNameTooLong, and add_identity fails too, with NickNameTooLong when the
\* identity exists and is not in the book yet (the checks for that come
\* first); neither changes the book.  16 chars and None are accepted.
C28_NicknameLimit ==
    [][ nickname_limit(FALSE) ]_vars

\* C28 witness: alice was refused update_nickname(0, _) with 17 chars; her
\* book holds identity 0 with a nickname of exactly NICKNAME_LENGTH_LIMIT
\* chars and identity 1 with none.
C28_Witness ==
    /\ last.op = "update_nickname" /\ last.caller = "alice"
    /\ last.args = <<0, Some(Bytes(NICKNAME_LENGTH_LIMIT + 1, 97))>>
    /\ failed_with(last, "NickNameTooLong")
    /\ contains(address_book_of, "alice")
    /\ address_book_of["alice"] =
          << <<0, Some(Bytes(NICKNAME_LENGTH_LIMIT, 98))>>, <<1, None>> >>

update_nickname_effect(any_length) ==
    (/\ by_book_owner("update_nickname")
     /\ any_length \/ ~too_long(last'.args[2]))
    => IF last'.args[1] \notin identities_in(book_before)
       THEN /\ failed_with(last', "IdentityNotAdded")
            /\ UNCHANGED <<storage, book_storage>>
       ELSE /\ succeeded(last')
            /\ contains(address_book_of', last'.caller)
            /\ Len(book_after) = Len(book_before)
            /\ \A i \in 1..Len(book_before) :
                  book_after[i] = IF book_before[i][1] = last'.args[1]
                                  THEN <<last'.args[1], last'.args[2]>>
                                  ELSE book_before[i]
            /\ only_callers_book_changes

\* C30 as stated: update_nickname(n, new) fails with IdentityNotAdded when n
\* is not in the caller's book and otherwise replaces the nickname of the
\* record of n in place, whatever the new nickname.
C30_UpdateNickname_Original ==
    [][ update_nickname_effect(TRUE) ]_vars

\* C30: update_nickname(n, new) with new None or at most NICKNAME_LENGTH_LIMIT
\* chars fails with IdentityNotAdded when n is not in the caller's book, and
\* otherwise replaces only the nickname of the record of n: its position and
\* identity number, the number of records and all other records are kept.  (A
\* longer nickname is refused with NickNameTooLong before n is looked up.)
C30_UpdateNickname ==
    [][ update_nickname_effect(FALSE) ]_vars

\* C30 witness: alice has just cleared the nickname of identity 0, the first
\* of the two records of her book; identity 1 keeps its nickname.
C30_Witness ==
    /\ last.op = "update_nickname" /\ last.caller = "alice"
    /\ last.args = <<0, None>> /\ succeeded(last)
    /\ contains(address_book_of, "alice")
    /\ address_book_of["alice"] =
          << <<0, None>>, <<1, Some(Bytes(NICKNAME_LENGTH_LIMIT, 98))>> >>

\* C31: identities_of(account) returns exactly the records of the account's
\* book, which add_identity appends to in the order of the calls, and no
\* record when the account has no book; has_address_book() returns TRUE
\* exactly when the caller has a book, which is so after create_address_book
\* and no longer so after remove_address_book; neither message writes storage.
C31_ReadOnlyQueries ==
    [][ /\ last'.op = "identities_of"
           => /\ last'.result
                   = Ok(IF last'.args[1] \in DOMAIN address_book_of
                        THEN address_book_of[last'.args[1]] ELSE <<>>)
              /\ last'.events = <<>>
              /\ UNCHANGED <<storage, book_storage>>
        /\ last'.op = "has_address_book"
           => /\ last'.result = Ok(last'.caller \in DOMAIN address_book_of)
              /\ last'.events = <<>>
              /\ UNCHANGED <<storage, book_storage>>
        /\ (last'.op = "AddressBook::add_identity" /\ succeeded(last'))
           => book_after = Append(book_before, <<last'.args[1], last'.args[2]>>)
        /\ (last'.op = "create_address_book" /\ succeeded(last'))
           => last'.caller \in DOMAIN address_book_of'
        /\ (last'.op = "remove_address_book" /\ succeeded(last'))
           => last'.caller \notin DOMAIN address_book_of' ]_vars

\* C31 witness: alice asked for her own records and got identity 1, added
\* first, before identity 0.
C31_Witness ==
    /\ last.op = "identities_of"
    /\ last.args = <<"alice">>
    /\ Len(last.result.val) = 2
    /\ last.result.val[1][1] = 1
    /\ last.result.val[2][1] = 0
    /\ last.result.val = address_book_of["alice"]

\* C32: Identity::remove_identity leaves every address book as it was; the
\* records that name the removed identity are still returned by
\* identities_of, and AddressBook::add_identity of a number that is not
\* stored in the Identity contract, by a caller that has a book, fails with
\* IdentityDoesntExist and changes nothing.
C32_NoCascade ==
    [][ /\ last'.op = "remove_identity"
           => UNCHANGED book_storage
        /\ last'.op = "identities_of"
           => /\ last'.args[1] \in DOMAIN address_book_of
                 => last'.result = Ok(address_book_of[last'.args[1]])
        /\ (/\ last'.op = "AddressBook::add_identity"
            /\ last'.caller \in DOMAIN address_book_of
            /\ last'.args[1] \notin DOMAIN number_to_identity)
           => /\ failed_with(last', "IdentityDoesntExist")
              /\ UNCHANGED <<storage, book_storage>> ]_vars

\* C32 witness: identity 0 was created and removed; alice's book still names
\* it, and bob, who has a book without it, was refused adding it.
C32_Witness ==
    /\ last.op = "AddressBook::add_identity"
    /\ last.caller = "bob"
    /\ last.args[1] = 0
    /\ failed_with(last, "IdentityDoesntExist")
    /\ identity_count = 1
    /\ 0 \notin DOMAIN number_to_identity
    /\ "alice" \in DOMAIN address_book_of
    /\ 0 \in identities_in(address_book_of["alice"])
    /\ "bob" \in DOMAIN address_book_of
    /\ address_book_of["bob"] = <<>>

\* The messages of both contracts that write storage.
WritingMessages ==
    {"create_identity", "add_address", "update_address", "remove_address",
     "remove_identity", "set_recovery_account", "transfer_ownership",
     "add_network", "update_network", "remove_network",
     "create_address_book", "remove_address_book", "AddressBook::add_identity",
     "AddressBook::remove_identity", "update_nickname"}

\* C33: a call of either contract that returns an error leaves every mapping,
\* both counters, the admin and every address book as they were, and emits
\* no event.
C33_AllOrNothing ==
    [][ (last'.op \in WritingMessages /\ ~last'.result.ok)
           => /\ UNCHANGED <<storage, book_storage>>
              /\ last'.events = <<>> ]_vars

\* C33 witness: with an identity that has an address, a network in the
\* directory and a book that names the identity, adding the identity to the
\* book again was refused by the last of add_identity's checks.
C33_Witness ==
    /\ last.op = "AddressBook::add_identity"
    /\ failed_with(last, "IdentityAlreadyAdded")
    /\ last.events = <<>>
    /\ address_book_of[last.caller] = <<<<0, None>>>>
    /\ 0 \in DOMAIN number_to_identity
    /\ number_to_identity[0] # <<>>
    /\ network_name # EmptyMapping

\* C34: with the messages of both contracts interleaved in any order by
\* different callers, an AddressBook::add_identity(n) that succeeds runs in
\* one step in which identity n is stored in the Identity contract, before
\* and after it, and in which the record for n is appended to the caller's
\* book: no remove_identity comes between the check and the append.
C34_AtomicAddIdentity ==
    [][ (last'.op = "AddressBook::add_identity" /\ succeeded(last'))
           => /\ last'.args[1] \in DOMAIN number_to_identity
              /\ last'.args[1] \in DOMAIN number_to_identity'
              /\ UNCHANGED storage
              /\ last'.caller \in DOMAIN address_book_of
              /\ address_book_of'[last'.caller]
                    = Append(address_book_of[last'.caller],
                             <<last'.args[1], last'.args[2]>>) ]_vars

\* C34 witness: identity 0 was added to alice's book and then removed from
\* the Identity contract; bob then added identity 1, which is stored.
C34_Witness ==
    /\ last.op = "AddressBook::add_identity"
    /\ last.caller = "bob"
    /\ last.args[1] = 1
    /\ succeeded(last)
    /\ DOMAIN number_to_identity = {1}
    /\ "alice" \in DOMAIN address_book_of
    /\ identities_in(address_book_of["alice"]) = {0}
    /\ identities_in(address_book_of["bob"]) = {1}

\* The error of the first check of add_identity that fails for the call in
\* `last'`, "none" when every check passes.  The checks are in the order
\* book, nickname length, identity exists, not in the book (length_second),
\* or in the order book, identity exists, not in the book, nickname length.
add_identity_first_failure(length_second) ==
    IF last'.caller \notin DOMAIN address_book_of THEN "AddressBookDoesntExist"
    ELSE IF length_second /\ too_long(last'.args[2]) THEN "NickNameTooLong"
    ELSE IF last'.args[1] \notin DOMAIN number_to_identity THEN "IdentityDoesntExist"
    ELSE IF last'.args[1] \in identities_in(book_before) THEN "IdentityAlreadyAdded"
    ELSE IF too_long(last'.args[2]) THEN "NickNameTooLong"
    ELSE "none"

\* add_identity returns the error of the first failing check in the given
\* order; remove_identity and update_nickname by a caller without a book
\* fail with AddressBookDoesntExist.
check_order(length_second) ==
    /\ last'.op = "AddressBook::add_identity"
       => last'.result.err = add_identity_first_failure(length_second)
    /\ (/\ last'.op \in {"AddressBook::remove_identity", "update_nickname"}
        /\ last'.caller \notin DOMAIN address_book_of)
       => failed_with(last', "AddressBookDoesntExist")

\* C35 as stated: add_identity checks, in this order, that the caller has a
\* book (AddressBookDoesntExist), the nickname length (NickNameTooLong), that
\* the identity exists (IdentityDoesntExist) and that it is not in the book
\* (IdentityAlreadyAdded), and returns the error of the first check that
\* fails; remove_identity and update_nickname fail with
\* AddressBookDoesntExist first when the caller has no book.
C35_CheckOrder_Original ==
    [][ check_order(TRUE) ]_vars

\* C35, amended: add_identity checks, in this order, that the caller has a
\* book (AddressBookDoesntExist), that the identity exists
\* (IdentityDoesntExist), that it is not in the book (IdentityAlreadyAdded)
\* and the nickname length (NickNameTooLong), and returns the error of the
\* first check that fails; remove_identity and update_nickname fail with
\* AddressBookDoesntExist first when the caller has no book.
C35_CheckOrder ==
    [][ check_order(FALSE) ]_vars

\* C35 witness: alice, who has a book, added an identity that does not exist
\* under a nickname that is too long, and was told the identity does not
\* exist.
C35_Witness ==
    /\ last.op = "AddressBook::add_identity"
    /\ last.caller \in DOMAIN address_book_of
    /\ last.args[1] \notin DOMAIN number_to_identity
    /\ too_long(last.args[2])
    /\ failed_with(last, "IdentityDoesntExist")

\* C36: add_address succeeds only for a network id that is in the network
\* directory when it is called, so every network an identity has an address
\* for was in the directory when the address was added.
C36_AddressNetworkExists ==
    [][ (last'.op = "add_address" /\ succeeded(last'))
           => last'.args[1] \in DOMAIN network_name ]_vars

\* C37: in every state each account that identity_of maps to a number n has
\* an IdentityInfo under n in number_to_identity and an owner under n in
\* owner_of; add_address, update_address and remove_address never fail with
\* IdentityDoesntExist.
C37_IdentityInfoExists ==
    [][ /\ \A account \in DOMAIN identity_of' :
              /\ identity_of'[account] \in DOMAIN number_to_identity'
              /\ identity_of'[account] \in DOMAIN owner_of'
        /\ last'.op \in {"add_address", "update_address", "remove_address"}
           => ~failed_with(last', "IdentityDoesntExist") ]_vars

\* C38: in every state recovery_account_of has a recovery account only for
\* identity numbers that are stored in number_to_identity, so none is left
\* for an identity that was removed.
C38_RecoveryOnlyForIdentities ==
    DOMAIN recovery_account_of \subseteq DOMAIN number_to_identity

\* The mapping has the same entries before and after the step, except
\* possibly under k.
same_elsewhere(after, before, k) ==
    \A x \in (DOMAIN after \cup DOMAIN before) \ {k} :
        /\ x \in DOMAIN after
        /\ x \in DOMAIN before
        /\ after[x] = before[x]

\* C39: add_address, update_address, remove_address, set_recovery_account
\* and remove_identity called by c leave the address map, the owner and the
\* recovery account of every identity but the one identity_of gives for c as
\* they were, and write nothing when c has no identity; they leave
\* identity_of of every other account and every address book as they were.
\* create_address_book, remove_address_book, add_identity, remove_identity
\* and update_nickname of the AddressBook called by c leave every other
\* account's book and the storage of the Identity contract as they were.
\* admin is the deployer and no step changes it.
C39_CallerIsolation ==
    [][ /\ last'.op \in {"add_address", "update_address", "remove_address",
                         "set_recovery_account", "remove_identity"}
           => /\ IF last'.caller \in DOMAIN identity_of
                 THEN LET n == identity_of[last'.caller] IN
                      /\ same_elsewhere(number_to_identity', number_to_identity, n)
                      /\ same_elsewhere(owner_of', owner_of, n)
                      /\ same_elsewhere(recovery_account_of', recovery_account_of, n)
                 ELSE UNCHANGED storage
              /\ same_elsewhere(identity_of', identity_of, last'.caller)
              /\ UNCHANGED book_storage
        /\ last'.op \in {"create_address_book", "remove_address_book",
                         "AddressBook::add_identity", "AddressBook::remove_identity",
                         "update_nickname"}
           => /\ same_elsewhere(address_book_of', address_book_of, last'.caller)
              /\ UNCHANGED <<storage, identity_contract>>
        /\ admin = Deployer
        /\ admin' = admin ]_vars

\* C39 witness: alice and bob each have an identity with an address and a
\* recovery account and a book with a record; bob has just removed his
\* identity, and alice's identity and both books are still there.
C39_Witness ==
    /\ last.op = "remove_identity"
    /\ last.caller = "bob"
    /\ succeeded(last)
    /\ "alice" \in DOMAIN identity_of
    /\ number_to_identity[identity_of["alice"]] # <<>>
    /\ owner_of[identity_of["alice"]] = "alice"
    /\ identity_of["alice"] \in DOMAIN recovery_account_of
    /\ DOMAIN address_book_of = {"alice", "bob"}
    /\ address_book_of["alice"] # <<>>
    /\ address_book_of["bob"] # <<>>

\* C40: identity_count stays at u32::MAX once it has reached it and never
\* goes back to 0, and a successful create_identity writes under a number
\* that no stored identity has: it replaces neither the address map nor the
\* owner of an identity that exists, at any value of the counter.
C40_SaturatingCounter ==
    [][ /\ is_u32_max(identity_count) => identity_count' = identity_count
        /\ identity_count # 0 => identity_count' # 0
        /\ (last'.op = "create_identity" /\ succeeded(last'))
           => /\ last'.result.val \notin DOMAIN number_to_identity
              /\ last'.result.val \notin DOMAIN owner_of ]_vars

====
